---- MODULE Spec2Model ----
(***************************************************************************)
(* Tool-invocation pipeline of the Obsidian MCP server: schema-driven      *)
(* input validation (validation.ts), argument construction and the         *)
(* process runner (cli.ts) and the dispatch table (handlers.ts).           *)
(*                                                                         *)
(* Text is a sequence of atoms.  An atom is an indivisible piece of a      *)
(* string: one whitespace character (" ", "\n", "\t"), one separator       *)
(* ("/", ",", "="), or a run of characters without whitespace or           *)
(* separators ("json", "Projects", "- [ ] " is the task marker).  The      *)
(* empty string is the empty sequence and concatenation is \o.             *)
(***************************************************************************)
EXTENDS Integers, Sequences, FiniteSets, TLC

\* ------------------------------------------------------------------------
\* Bounds of the model
\* ------------------------------------------------------------------------

\* longest parameter bag (number of keys) a caller sends to handleTool
MaxBagLen == 2

\* most keys a caller of handleTool adds to the filled-in required fields
MaxInputLen == 1

\* longest parameter object handed directly to buildArgs
MaxParamsLen == 3

\* ------------------------------------------------------------------------
\* JavaScript values
\* ------------------------------------------------------------------------

Undefined == [t |-> "undefined", v |-> 0]

Null == [t |-> "null", v |-> 0]

JSString(s) == [t |-> "string", v |-> s]

JSNumber(n) == [t |-> "number", v |-> n]

JSBoolean(b) == [t |-> "boolean", v |-> b]

\* typeof value
TypeOf(value) == IF value.t = "null" THEN "object" ELSE value.t

\* a ?? b taken as a: the default never applies
Nullish_never(value, dflt) == value

\* value ?? dflt
Nullish(value, dflt) == IF value.t \in {"undefined", "null"} THEN dflt ELSE value

\* ToBoolean(value), the test of `x ? a : b`, `if (x)`, `x || y`
Truthy(value) ==
    CASE value.t = "string" -> value.v # <<>>
      [] value.t = "number" -> value.v # 0
      [] value.t = "boolean" -> value.v
      [] OTHER -> FALSE

\* ------------------------------------------------------------------------
\* Text
\* ------------------------------------------------------------------------

WhiteSpace == {" ", "\n", "\t"}

RECURSIVE TrimStart(_)
TrimStart(s) ==
    IF s # <<>> /\ Head(s) \in WhiteSpace THEN TrimStart(Tail(s)) ELSE s

RECURSIVE TrimEnd(_)
TrimEnd(s) ==
    IF s # <<>> /\ s[Len(s)] \in WhiteSpace
    THEN TrimEnd(SubSeq(s, 1, Len(s) - 1))
    ELSE s

\* String.prototype.trim
Trim(s) == TrimEnd(TrimStart(s))

DigitAtoms == <<"0", "1", "2", "3", "4", "5", "6", "7", "8", "9">>

RECURSIVE NatToString(_)
NatToString(n) ==
    IF n < 10
    THEN <<DigitAtoms[n + 1]>>
    ELSE NatToString(n \div 10) \o <<DigitAtoms[(n % 10) + 1]>>

\* String(value) of a string, an integer number or a boolean
StringOf(value) ==
    CASE value.t = "string" -> value.v
      [] value.t = "number" ->
            IF value.v < 0 THEN <<"-">> \o NatToString(0 - value.v)
            ELSE NatToString(value.v)
      [] value.t = "boolean" -> IF value.v THEN <<"true">> ELSE <<"false">>
      [] value.t = "null" -> <<"null">>
      [] OTHER -> <<"undefined">>

\* ------------------------------------------------------------------------
\* Objects used as parameter bags: a sequence of [k, v] entries with
\* distinct keys, in the order in which the keys were inserted.
\* ------------------------------------------------------------------------

KeysOf(obj) == {obj[i].k : i \in 1..Len(obj)}

HasKey(obj, key) == \E i \in 1..Len(obj) : obj[i].k = key

\* obj[key]
Get(obj, key) ==
    IF HasKey(obj, key)
    THEN obj[CHOOSE i \in 1..Len(obj) : obj[i].k = key].v
    ELSE Undefined

\* A property key that is a canonical array index ("0", "1", ...)
IsArrayIndex(key) == \E i \in 1..Len(DigitAtoms) : DigitAtoms[i] = key

ArrayIndex(key) == (CHOOSE i \in 1..Len(DigitAtoms) : DigitAtoms[i] = key) - 1

RECURSIVE SelectEntries(_, _)
SelectEntries(obj, indexKeys) ==
    IF obj = <<>> THEN <<>>
    ELSE IF IsArrayIndex(Head(obj).k) = indexKeys
         THEN <<Head(obj)>> \o SelectEntries(Tail(obj), indexKeys)
         ELSE SelectEntries(Tail(obj), indexKeys)

RECURSIVE SortByIndex(_)
SortByIndex(es) ==
    IF es = <<>> THEN <<>>
    ELSE LET m == CHOOSE i \in 1..Len(es) :
                     \A j \in 1..Len(es) : ArrayIndex(es[i].k) <= ArrayIndex(es[j].k)
         IN <<es[m]>> \o SortByIndex(SubSeq(es, 1, m - 1) \o SubSeq(es, m + 1, Len(es)))

\* Object.entries(obj): own keys that are array indices in ascending numeric
\* order, then the other string keys in insertion order
\* (OrdinaryOwnPropertyKeys).
Entries(obj) == SortByIndex(SelectEntries(obj, TRUE)) \o SelectEntries(obj, FALSE)

\* ------------------------------------------------------------------------
\* cli.ts: buildArgs
\* ------------------------------------------------------------------------

\* PushArg with `false` written out as key=false
PushArg_explicitFalse(args, key, value) ==
    IF value.t = "undefined" THEN args
    ELSE IF TypeOf(value) = "boolean" /\ value.v
         THEN Append(args, <<key>>)
         ELSE Append(args, <<key, "=">> \o StringOf(value))

\* the body of the loop of buildArgs: args after the entry (key, value)
PushArg(args, key, value) ==
    IF value.t = "undefined" THEN args
    ELSE IF TypeOf(value) = "boolean"
         THEN IF value.v THEN Append(args, <<key>>) ELSE args
         ELSE Append(args, <<key, "=">> \o StringOf(value))

\* buildArgsLoop with each token put in front of the earlier ones
RECURSIVE buildArgsLoop_unshift(_, _)
buildArgsLoop_unshift(args, es) ==
    IF es = <<>> THEN args
    ELSE buildArgsLoop_unshift(
             <<Head(args)>> \o PushArg(<<>>, Head(es).k, Head(es).v) \o Tail(args),
             Tail(es))

RECURSIVE buildArgsLoop(_, _)
buildArgsLoop(args, es) ==
    IF es = <<>> THEN args
    ELSE buildArgsLoop(PushArg(args, Head(es).k, Head(es).v), Tail(es))

\* buildArgs(command, params); hasParams is FALSE when params is omitted
buildArgs(command, hasParams, params) ==
    IF hasParams THEN buildArgsLoop(<<(<<command>>)>>, Entries(params))
    ELSE <<(<<command>>)>>

\* ------------------------------------------------------------------------
\* tools.ts: the catalog.  Only name and inputSchema are modelled
\* (descriptions play no part in the pipeline).  An enum value is a text.
\* ------------------------------------------------------------------------

StringProp(key) == [k |-> key, type |-> "string", hasEnum |-> FALSE, enum |-> <<>>]

EnumProp(key, values) == [k |-> key, type |-> "string", hasEnum |-> TRUE, enum |-> values]

NumberProp(key) == [k |-> key, type |-> "number", hasEnum |-> FALSE, enum |-> <<>>]

BooleanProp(key) == [k |-> key, type |-> "boolean", hasEnum |-> FALSE, enum |-> <<>>]

\* objectSchema(properties, required): `required` is set on the schema only
\* when it is given and non-empty
objectSchema(properties, required) ==
    [properties |-> properties,
     hasRequired |-> required # <<>>,
     required |-> required]

Tool(name, properties, required) ==
    [name |-> name, inputSchema |-> objectSchema(properties, required)]

tools ==
    << Tool("create_note",
            <<StringProp("name"), StringProp("content"), StringProp("template"),
              BooleanProp("overwrite")>>,
            <<"name">>),
       Tool("read_note", <<StringProp("file"), StringProp("path")>>, <<>>),
       Tool("append_to_note",
            <<StringProp("file"), StringProp("path"), StringProp("content")>>,
            <<"content">>),
       Tool("prepend_to_note",
            <<StringProp("file"), StringProp("path"), StringProp("content")>>,
            <<"content">>),
       Tool("search_vault",
            <<StringProp("query"), StringProp("path"), NumberProp("limit"),
              EnumProp("format", <<(<<"text">>), (<<"json">>)>>)>>,
            <<"query">>),
       Tool("daily_note", <<>>, <<>>),
       Tool("daily_append", <<StringProp("content")>>, <<"content">>),
       Tool("get_vault_info",
            <<EnumProp("info", <<(<<"name">>), (<<"path">>), (<<"files">>),
                                 (<<"folders">>), (<<"size">>)>>)>>,
            <<>>),
       Tool("list_files",
            <<StringProp("folder"), StringProp("ext"), BooleanProp("total")>>,
            <<>>),
       Tool("get_tags",
            <<EnumProp("sort", <<(<<"name">>), (<<"count">>)>>)>>,
            <<>>),
       Tool("get_backlinks", <<StringProp("file"), StringProp("path")>>, <<>>),
       Tool("get_outline",
            <<StringProp("file"), StringProp("path"),
              EnumProp("format", <<(<<"tree">>), (<<"md">>)>>)>>,
            <<>>),
       Tool("set_property",
            <<StringProp("name"), StringProp("value"),
              EnumProp("type", <<(<<"text">>), (<<"list">>), (<<"number">>),
                                 (<<"checkbox">>), (<<"date">>), (<<"datetime">>)>>),
              StringProp("file"), StringProp("path")>>,
            <<"name", "value">>),
       Tool("read_property",
            <<StringProp("name"), StringProp("file"), StringProp("path")>>,
            <<"name">>),
       Tool("list_tasks",
            <<StringProp("file"), StringProp("path"), BooleanProp("all"),
              BooleanProp("daily"), BooleanProp("done"), BooleanProp("todo"),
              BooleanProp("verbose")>>,
            <<>>),
       Tool("toggle_task",
            <<StringProp("ref"), StringProp("file"), NumberProp("line")>>,
            <<>>),
       Tool("daily_read", <<>>, <<>>),
       Tool("daily_prepend", <<StringProp("content")>>, <<"content">>),
       Tool("list_templates", <<BooleanProp("total")>>, <<>>),
       Tool("read_template",
            <<StringProp("name"), BooleanProp("resolve")>>,
            <<"name">>),
       Tool("get_links", <<StringProp("file"), StringProp("path")>>, <<>>),
       Tool("list_properties",
            <<StringProp("file"), StringProp("path"),
              EnumProp("sort", <<(<<"name">>), (<<"count">>)>>)>>,
            <<>>),
       Tool("remove_property",
            <<StringProp("name"), StringProp("file"), StringProp("path")>>,
            <<"name">>),
       Tool("get_tag_info",
            <<StringProp("tag"), BooleanProp("verbose")>>,
            <<"tag">>),
       Tool("move_file",
            <<StringProp("from"), StringProp("to")>>,
            <<"from", "to">>),
       Tool("query_base",
            <<StringProp("base"), StringProp("view"),
              EnumProp("format", <<(<<"json">>), (<<"csv">>), (<<"tsv">>),
                                   (<<"md">>), (<<"paths">>)>>),
              NumberProp("limit")>>,
            <<"base">>),
       Tool("backlog_add",
            <<StringProp("project"), StringProp("item"),
              EnumProp("priority", <<(<<"high">>), (<<"medium">>), (<<"low">>)>>)>>,
            <<"project", "item">>),
       Tool("backlog_read", <<StringProp("project")>>, <<"project">>),
       Tool("backlog_done",
            <<StringProp("project"), StringProp("item")>>,
            <<"project", "item">>),
       Tool("project_list", <<>>, <<>>),
       Tool("project_overview", <<StringProp("project")>>, <<"project">>),
       Tool("project_create",
            <<StringProp("project"), StringProp("description"),
              StringProp("repo"), StringProp("tech")>>,
            <<"project", "description">>) >>

\* the names of the catalog
CatalogNames == {tools[i].name : i \in 1..Len(tools)}

\* ------------------------------------------------------------------------
\* validation.ts
\* ------------------------------------------------------------------------

\* The ValidationError thrown for (toolName, message).  The message is kept
\* structured: kind names the message template and the other fields are the
\* values interpolated into it.
\*   UnknownTool      Unknown tool "<toolName>"
\*   MissingRequired  Missing required parameter "<param>"
\*   EmptyRequired    Required parameter "<param>" must not be empty
\*   TypeMismatch     Parameter "<param>" must be a <expected>, got <actual>
\*   InvalidEnum      Parameter "<param>" must be one of [<allowed>], got "<got>"
ValidationError(toolName, kind, param, expected, actual, allowed, got) ==
    [name |-> "ValidationError", toolName |-> toolName, kind |-> kind,
     param |-> param, expected |-> expected, actual |-> actual,
     allowed |-> allowed, got |-> got]

\* no error thrown
NoError ==
    [name |-> "none", toolName |-> "", kind |-> "none",
     param |-> "", expected |-> "", actual |-> "",
     allowed |-> <<>>, got |-> <<>>]

RECURSIVE Dedup(_, _)
Dedup(seen, s) ==
    IF s = <<>> THEN seen
    ELSE IF \E i \in 1..Len(seen) : seen[i] = Head(s)
         THEN Dedup(seen, Tail(s))
         ELSE Dedup(Append(seen, Head(s)), Tail(s))

\* new Set(iterable), kept in insertion order; `undefined` gives the empty set
NewSet(present, s) == IF present THEN Dedup(<<>>, s) ELSE <<>>

\* list.find((t) => t.name === toolName): index of the first match, 0 if none
FindByName(list, toolName) ==
    IF \E i \in 1..Len(list) : list[i].name = toolName
    THEN CHOOSE i \in 1..Len(list) :
            /\ list[i].name = toolName
            /\ \A j \in 1..(i - 1) : list[j].name # toolName
    ELSE 0

\* tools.find((t) => t.name === toolName)
FindTool(toolName) == FindByName(tools, toolName)

\* the ToolSchema parsed from a catalog entry
ParseSchema(tool) ==
    [required |-> NewSet(tool.inputSchema.hasRequired, tool.inputSchema.required),
     properties |-> tool.inputSchema.properties]

\* getSchema(toolName) against the cache `cache` (a function from tool names
\* to ToolSchema): the schema found, and the cache afterwards
getSchemaOf(cache, toolName, tool) ==
    IF tool = 0
    THEN [found |-> FALSE, schema |-> [required |-> <<>>, properties |-> <<>>],
          cache |-> cache]
    ELSE LET parsed == ParseSchema(tools[tool])
         IN [found |-> TRUE, schema |-> parsed,
             cache |-> (toolName :> parsed) @@ cache]

\* getSchema whose cached entries have lost their required set
getSchema_forgetsRequired(cache, toolName) ==
    IF toolName \in DOMAIN cache
    THEN [found |-> TRUE,
          schema |-> [cache[toolName] EXCEPT !.required = <<>>],
          cache |-> cache]
    ELSE getSchemaOf(cache, toolName, FindTool(toolName))

getSchema(cache, toolName) ==
    IF toolName \in DOMAIN cache
    THEN [found |-> TRUE, schema |-> cache[toolName], cache |-> cache]
    ELSE getSchemaOf(cache, toolName, FindTool(toolName))

\* IsEmptyString without the trim
IsEmptyString_untrimmed(value) == TypeOf(value) = "string" /\ value.v = <<>>

\* typeof value === "string" && value.trim() === ""
IsEmptyString(value) == TypeOf(value) = "string" /\ Trim(value.v) = <<>>

\* the body of the loop over schema.required for one field
CheckRequiredField(toolName, field, value) ==
    IF value.t = "undefined" \/ value.t = "null"
    THEN ValidationError(toolName, "MissingRequired", field, "", "", <<>>, <<>>)
    ELSE IF IsEmptyString(value)
         THEN ValidationError(toolName, "EmptyRequired", field, "", "", <<>>, <<>>)
         ELSE NoError

\* for (const field of schema.required) ...: the first error thrown
RECURSIVE CheckRequired(_, _, _)
CheckRequired(toolName, required, input) ==
    IF required = <<>> THEN NoError
    ELSE LET err == CheckRequiredField(toolName, Head(required),
                                       Get(input, Head(required)))
         IN IF err # NoError THEN err
            ELSE CheckRequired(toolName, Tail(required), input)

\* schema.properties[key]: index of the property schema, 0 when undefined
PropIndex(properties, key) ==
    IF \E i \in 1..Len(properties) : properties[i].k = key
    THEN CHOOSE i \in 1..Len(properties) : properties[i].k = key
    ELSE 0

\* TypeCheck without the test of numbers
TypeCheck_numberUnchecked(toolName, key, propSchema, value) ==
    IF propSchema.type = "string" /\ TypeOf(value) # "string"
    THEN ValidationError(toolName, "TypeMismatch", key, "string", TypeOf(value),
                         <<>>, <<>>)
    ELSE IF propSchema.type = "boolean" /\ TypeOf(value) # "boolean"
    THEN ValidationError(toolName, "TypeMismatch", key, "boolean", TypeOf(value),
                         <<>>, <<>>)
    ELSE NoError

\* the type check of one provided key
TypeCheck(toolName, key, propSchema, value) ==
    LET expectedType == propSchema.type
        actualType == TypeOf(value)
    IN IF expectedType = "string" /\ actualType # "string"
       THEN ValidationError(toolName, "TypeMismatch", key, "string", actualType,
                            <<>>, <<>>)
       ELSE IF expectedType = "number" /\ actualType # "number"
       THEN ValidationError(toolName, "TypeMismatch", key, "number", actualType,
                            <<>>, <<>>)
       ELSE IF expectedType = "boolean" /\ actualType # "boolean"
       THEN ValidationError(toolName, "TypeMismatch", key, "boolean", actualType,
                            <<>>, <<>>)
       ELSE NoError

\* EnumCheck with the typeof test inverted
EnumCheck_wrongTypeTest(toolName, key, propSchema, value) ==
    IF propSchema.hasEnum /\ TypeOf(value) # "string"
    THEN ValidationError(toolName, "InvalidEnum", key, "", "",
                         propSchema.enum, <<>>)
    ELSE NoError

\* the enum check of one provided key
EnumCheck(toolName, key, propSchema, value) ==
    IF propSchema.hasEnum /\ TypeOf(value) = "string"
       /\ ~(\E i \in 1..Len(propSchema.enum) : propSchema.enum[i] = value.v)
    THEN ValidationError(toolName, "InvalidEnum", key, "", "",
                         propSchema.enum, value.v)
    ELSE NoError

\* CheckEntry rejecting the keys the schema does not declare
CheckEntry_rejectsUndeclared(toolName, properties, key, value) ==
    IF value.t = "undefined" THEN NoError
    ELSE IF PropIndex(properties, key) = 0
    THEN ValidationError(toolName, "UnknownParameter", key, "", "", <<>>, <<>>)
    ELSE LET propSchema == properties[PropIndex(properties, key)]
             typeErr == TypeCheck(toolName, key, propSchema, value)
         IN IF typeErr # NoError THEN typeErr
            ELSE EnumCheck(toolName, key, propSchema, value)

\* the body of the loop over Object.entries(input) for one entry
CheckEntry(toolName, properties, key, value) ==
    IF value.t = "undefined" THEN NoError
    ELSE IF PropIndex(properties, key) = 0 THEN NoError
    ELSE LET propSchema == properties[PropIndex(properties, key)]
             typeErr == TypeCheck(toolName, key, propSchema, value)
         IN IF typeErr # NoError THEN typeErr
            ELSE EnumCheck(toolName, key, propSchema, value)

\* for (const [key, value] of Object.entries(input)) ...: the first error
RECURSIVE CheckProvided(_, _, _)
CheckProvided(toolName, properties, es) ==
    IF es = <<>> THEN NoError
    ELSE LET err == CheckEntry(toolName, properties, Head(es).k, Head(es).v)
         IN IF err # NoError THEN err
            ELSE CheckProvided(toolName, properties, Tail(es))

\* validateInput(toolName, input) against the cache: the error thrown
\* (NoError when it returns) and the cache afterwards
\* validateAgainst with the loop over the entries run before the loop over
\* the required fields
validateAgainst_typesFirst(got, toolName, input) ==
    LET entErr == CheckProvided(toolName, got.schema.properties, Entries(input))
    IN IF ~got.found
       THEN [error |-> ValidationError(toolName, "UnknownTool", "", "", "",
                                       <<>>, <<>>),
             cache |-> got.cache]
       ELSE IF entErr # NoError
            THEN [error |-> entErr, cache |-> got.cache]
            ELSE [error |-> CheckRequired(toolName, got.schema.required, input),
                  cache |-> got.cache]

\* the body of validateInput once getSchema returned `got`
validateAgainst(got, toolName, input) ==
    LET reqErr == CheckRequired(toolName, got.schema.required, input)
    IN IF ~got.found
       THEN [error |-> ValidationError(toolName, "UnknownTool", "", "", "",
                                       <<>>, <<>>),
             cache |-> got.cache]
       ELSE IF reqErr # NoError
            THEN [error |-> reqErr, cache |-> got.cache]
            ELSE [error |-> CheckProvided(toolName, got.schema.properties,
                                          Entries(input)),
                  cache |-> got.cache]

validateInput(cache, toolName, input) ==
    validateAgainst(getSchema(cache, toolName), toolName, input)

\* ------------------------------------------------------------------------
\* cli.ts: runObsidian, execObsidian
\* ------------------------------------------------------------------------

DEFAULT_TIMEOUT_MS == 15000

OBSIDIAN_BIN == "obsidian"

\* new ObsidianCliError(message, exitCode, stderr)
ObsidianCliError(message, exitCode, stderr) ==
    [name |-> "ObsidianCliError", message |-> message, exitCode |-> exitCode,
     stderr |-> stderr]

\* new Error(message)
Error(message) == [name |-> "Error", message |-> message]

\* a settled promise
Resolved(value) == [status |-> "resolved", value |-> value, error |-> NoError]

Rejected(error) == [status |-> "rejected", value |-> <<>>, error |-> error]

Pending == [status |-> "pending", value |-> <<>>, error |-> NoError]

\* options of runObsidian; an omitted options object reads as both undefined
NoOptions == [vault |-> Undefined, timeoutMs |-> Undefined]

\* Array.prototype.join(sep) of a list of texts
RECURSIVE Join(_, _)
Join(texts, sep) ==
    IF texts = <<>> THEN <<>>
    ELSE IF Len(texts) = 1 THEN texts[1]
    ELSE texts[1] \o sep \o Join(Tail(texts), sep)

\* ResolveVault with || in the place of ??
ResolveVault_falsyFallsBack(options, envVault) ==
    IF Truthy(options.vault) THEN options.vault ELSE envVault

\* options?.vault ?? process.env.OBSIDIAN_VAULT
ResolveVault(options, envVault) == Nullish(options.vault, envVault)

\* runObsidian up to the call of execFile: the child process spawned for
\* (args, options) when OBSIDIAN_VAULT is envVault
SpawnObsidian(args, options, envVault) ==
    LET vault == ResolveVault(options, envVault)
        timeout == Nullish(options.timeoutMs, JSNumber(DEFAULT_TIMEOUT_MS))
        fullArgs == IF Truthy(vault)
                    THEN Append(args, <<"vault", "=">> \o StringOf(vault))
                    ELSE args
    IN [bin |-> OBSIDIAN_BIN, args |-> args, options |-> options,
        envVault |-> envVault, fullArgs |-> fullArgs, timeoutMs |-> timeout.v]

\* The arguments execFile hands to its callback.  error is null
\* (present = FALSE) or an error object that may own the properties `killed`
\* (execFile terminated the child when its timeout expired) and `code`.
NoChildError ==
    [present |-> FALSE, hasKilled |-> FALSE, killed |-> FALSE,
     hasCode |-> FALSE, code |-> Undefined]

ChildError(hasKilled, killed, hasCode, code) ==
    [present |-> TRUE, hasKilled |-> hasKilled, killed |-> killed,
     hasCode |-> hasCode, code |-> code]

\* the callback without its test of error.killed
execObsidianCallback_exitCodeOnly(child, error, stdout, stderr) ==
    [ok |-> TRUE, error |-> NoError, stdout |-> stdout, stderr |-> stderr,
     exitCode |-> IF error.present /\ error.hasCode
                      /\ TypeOf(error.code) = "number"
                   THEN error.code.v
                   ELSE IF error.present THEN 1 ELSE 0]

\* the callback taking every error without a numeric code for a timeout
execObsidianCallback_noNumericCode(child, error, stdout, stderr) ==
    IF error.present /\ ~(error.hasCode /\ TypeOf(error.code) = "number")
    THEN [ok |-> FALSE,
          error |-> ObsidianCliError(
                        <<"Command timed out after", " ">>
                            \o NatToString(child.timeoutMs)
                            \o <<"ms:", " ", "obsidian", " ">>
                            \o Join(child.fullArgs, <<" ">>),
                        1, stderr),
          stdout |-> <<>>, stderr |-> <<>>, exitCode |-> 0]
    ELSE [ok |-> TRUE, error |-> NoError, stdout |-> stdout, stderr |-> stderr,
          exitCode |-> IF error.present THEN error.code.v ELSE 0]

\* the callback of execFile in execObsidian: the promise of execObsidian
\* rejects (ok = FALSE) or resolves to a CliResult
execObsidianCallback(child, error, stdout, stderr) ==
    IF error.present /\ error.hasKilled /\ error.killed
    THEN [ok |-> FALSE,
          error |-> ObsidianCliError(
                        <<"Command timed out after", " ">>
                            \o NatToString(child.timeoutMs)
                            \o <<"ms:", " ", "obsidian", " ">>
                            \o Join(child.fullArgs, <<" ">>),
                        1, stderr),
          stdout |-> <<>>, stderr |-> <<>>, exitCode |-> 0]
    ELSE [ok |-> TRUE, error |-> NoError, stdout |-> stdout, stderr |-> stderr,
          exitCode |-> IF error.present /\ error.hasCode
                           /\ TypeOf(error.code) = "number"
                        THEN error.code.v
                        ELSE IF error.present THEN 1 ELSE 0]

\* a ?? b over texts: a text is never nullish
OrElse_nullish(a, b) == a

\* a || b over texts
OrElse(a, b) == IF a # <<>> THEN a ELSE b

\* runObsidian without its test of result.exitCode
runObsidianSettle_ignoresExitCode(child, error, stdout, stderr) ==
    LET result == execObsidianCallback(child, error, stdout, stderr)
    IN IF ~result.ok THEN Rejected(result.error)
       ELSE Resolved(Trim(result.stdout))

\* runObsidian from the settling of execObsidian to its own settling
runObsidianSettle(child, error, stdout, stderr) ==
    LET result == execObsidianCallback(child, error, stdout, stderr)
    IN IF ~result.ok THEN Rejected(result.error)
       ELSE IF result.exitCode # 0
            THEN Rejected(ObsidianCliError(
                     OrElse(Trim(result.stderr),
                            OrElse(Trim(result.stdout), <<"Command failed">>)),
                     result.exitCode, result.stderr))
            ELSE Resolved(Trim(result.stdout))

\* ------------------------------------------------------------------------
\* handlers.ts: handleTool
\* ------------------------------------------------------------------------

\* `key: <the first value of the input>`: the input read by position
In_byPosition(input, key) ==
    [k |-> key, v |-> IF input = <<>> THEN Undefined ELSE input[1].v]

\* `key: input.key` of an object literal
In(input, key) == [k |-> key, v |-> Get(input, key)]

\* `key: value` of an object literal
Lit(key, value) == [k |-> key, v |-> value]

\* `false` in the place of the literal `true`
True_false == JSBoolean(FALSE)

\* the literal `true`
True == JSBoolean(TRUE)

\* `Projects/${project}/backlog.md`
BacklogPath(project) ==
    <<"Projects", "/">> \o StringOf(project) \o <<"/", "backlog", ".md">>

\* `Projects/${project}/overview.md`
OverviewPath(project) ==
    <<"Projects", "/">> \o StringOf(project) \o <<"/", "overview", ".md">>

\* text.replace(/\.md$/, "")
StripMd(text) ==
    IF text # <<>> /\ text[Len(text)] = ".md"
    THEN SubSeq(text, 1, Len(text) - 1)
    ELSE text

\* the line appended by backlog_add
BacklogLine(item, priority) ==
    IF Truthy(priority)
    THEN <<"- [ ] ">> \o StringOf(item) \o <<" ", "@">> \o StringOf(priority)
    ELSE <<"- [ ] ">> \o StringOf(item)

\* SingleCallCases with the case "move_file" left out
SingleCallCases_withoutMoveFile ==
    {"create_note", "read_note", "append_to_note", "prepend_to_note",
     "search_vault", "daily_note", "daily_append", "get_vault_info",
     "list_files", "get_tags", "get_backlinks", "get_outline", "set_property",
     "read_property", "list_tasks", "toggle_task", "daily_read",
     "daily_prepend", "list_templates", "read_template", "get_links",
     "list_properties", "remove_property", "get_tag_info",
     "query_base", "backlog_add", "backlog_read", "project_overview"}

\* the case labels of the switch whose body is `return runObsidian(buildArgs(...))`
SingleCallCases ==
    {"create_note", "read_note", "append_to_note", "prepend_to_note",
     "search_vault", "daily_note", "daily_append", "get_vault_info",
     "list_files", "get_tags", "get_backlinks", "get_outline", "set_property",
     "read_property", "list_tasks", "toggle_task", "daily_read",
     "daily_prepend", "list_templates", "read_template", "get_links",
     "list_properties", "remove_property", "get_tag_info", "move_file",
     "query_base", "backlog_add", "backlog_read", "project_overview"}

\* the case labels of the switch with more than one step
CompoundCases == {"backlog_done", "project_list", "project_create"}

\* the command of the case `name` of SingleCallCases
SingleCallCommand(name) ==
    CASE name = "create_note" -> "create"
      [] name = "read_note" -> "read"
      [] name = "append_to_note" -> "append"
      [] name = "prepend_to_note" -> "prepend"
      [] name = "search_vault" -> "search"
      [] name = "daily_note" -> "daily"
      [] name = "daily_append" -> "daily:append"
      [] name = "get_vault_info" -> "vault"
      [] name = "list_files" -> "files"
      [] name = "get_tags" -> "tags"
      [] name = "get_backlinks" -> "backlinks"
      [] name = "get_outline" -> "outline"
      [] name = "set_property" -> "property:set"
      [] name = "read_property" -> "property:read"
      [] name = "list_tasks" -> "tasks"
      [] name = "toggle_task" -> "task"
      [] name = "daily_read" -> "daily:read"
      [] name = "daily_prepend" -> "daily:prepend"
      [] name = "list_templates" -> "templates"
      [] name = "read_template" -> "template:read"
      [] name = "get_links" -> "links"
      [] name = "list_properties" -> "properties"
      [] name = "remove_property" -> "property:remove"
      [] name = "get_tag_info" -> "tag"
      [] name = "move_file" -> "move"
      [] name = "query_base" -> "base:query"
      [] name = "backlog_add" -> "append"
      [] name = "backlog_read" -> "read"
      [] name = "project_overview" -> "read"

\* the parameter object of the case `name` of SingleCallCases
SingleCallParams(name, input) ==
    CASE name = "create_note" ->
            <<In(input, "name"), In(input, "content"), In(input, "template"),
              In(input, "overwrite"), Lit("silent", True)>>
      [] name = "read_note" ->
            <<In(input, "file"), In(input, "path")>>
      [] name = "append_to_note" ->
            <<In(input, "file"), In(input, "path"), In(input, "content"),
              Lit("silent", True)>>
      [] name = "prepend_to_note" ->
            <<In(input, "file"), In(input, "path"), In(input, "content"),
              Lit("silent", True)>>
      [] name = "search_vault" ->
            <<In(input, "query"), In(input, "path"), In(input, "limit"),
              Lit("format", Nullish(Get(input, "format"), JSString(<<"json">>)))>>
      [] name = "daily_note" ->
            <<Lit("silent", True)>>
      [] name = "daily_append" ->
            <<In(input, "content"), Lit("silent", True)>>
      [] name = "get_vault_info" ->
            <<In(input, "info")>>
      [] name = "list_files" ->
            <<In(input, "folder"), In(input, "ext"), In(input, "total")>>
      [] name = "get_tags" ->
            <<In(input, "sort"), Lit("all", True), Lit("counts", True)>>
      [] name = "get_backlinks" ->
            <<In(input, "file"), In(input, "path")>>
      [] name = "get_outline" ->
            <<In(input, "file"), In(input, "path"), In(input, "format")>>
      [] name = "set_property" ->
            <<In(input, "name"), In(input, "value"), In(input, "type"),
              In(input, "file"), In(input, "path")>>
      [] name = "read_property" ->
            <<In(input, "name"), In(input, "file"), In(input, "path")>>
      [] name = "list_tasks" ->
            <<In(input, "file"), In(input, "path"), In(input, "all"),
              In(input, "daily"), In(input, "done"), In(input, "todo"),
              In(input, "verbose")>>
      [] name = "toggle_task" ->
            <<In(input, "ref"), In(input, "file"), In(input, "line"),
              Lit("toggle", True)>>
      [] name = "daily_read" ->
            <<>>
      [] name = "daily_prepend" ->
            <<In(input, "content"), Lit("silent", True)>>
      [] name = "list_templates" ->
            <<In(input, "total")>>
      [] name = "read_template" ->
            <<In(input, "name"), In(input, "resolve")>>
      [] name = "get_links" ->
            <<In(input, "file"), In(input, "path")>>
      [] name = "list_properties" ->
            <<In(input, "file"), In(input, "path"), In(input, "sort"),
              Lit("counts", True)>>
      [] name = "remove_property" ->
            <<In(input, "name"), In(input, "file"), In(input, "path")>>
      [] name = "get_tag_info" ->
            <<In(input, "tag"), In(input, "verbose")>>
      [] name = "move_file" ->
            <<In(input, "from"), In(input, "to"), Lit("silent", True)>>
      [] name = "query_base" ->
            <<In(input, "base"), In(input, "view"),
              Lit("format", Nullish(Get(input, "format"), JSString(<<"json">>))),
              In(input, "limit")>>
      [] name = "backlog_add" ->
            <<Lit("path", JSString(BacklogPath(Get(input, "project")))),
              Lit("content", JSString(BacklogLine(Get(input, "item"),
                                                  Get(input, "priority")))),
              Lit("silent", True)>>
      [] name = "backlog_read" ->
            <<Lit("path", JSString(BacklogPath(Get(input, "project"))))>>
      [] name = "project_overview" ->
            <<Lit("path", JSString(OverviewPath(Get(input, "project"))))>>

\* the argument vector built by the case `name` of SingleCallCases
SingleCallArgs(name, input) ==
    buildArgs(SingleCallCommand(name), TRUE, SingleCallParams(name, input))

\* text.split(sep) for a one-atom separator: the list of pieces
RECURSIVE SplitLoop(_, _, _, _)
SplitLoop(text, sep, piece, pieces) ==
    IF text = <<>> THEN Append(pieces, piece)
    ELSE IF Head(text) = sep
         THEN SplitLoop(Tail(text), sep, <<>>, Append(pieces, piece))
         ELSE SplitLoop(Tail(text), sep, Append(piece, Head(text)), pieces)

Split(text, sep) == SplitLoop(text, sep, <<>>, <<>>)

\* text.startsWith(prefix)
StartsWith(text, prefix) ==
    Len(text) >= Len(prefix) /\ SubSeq(text, 1, Len(prefix)) = prefix

\* text.includes(part)
Includes(text, part) ==
    \E i \in 1..(Len(text) - Len(part) + 1) :
        SubSeq(text, i, i + Len(part) - 1) = part

\* text.replace(pattern, replacement) for a non-empty string pattern: the
\* first occurrence is replaced
Replace(text, pattern, replacement) ==
    IF Includes(text, pattern)
    THEN LET i == CHOOSE i \in 1..(Len(text) - Len(pattern) + 1) :
                     /\ SubSeq(text, i, i + Len(pattern) - 1) = pattern
                     /\ \A j \in 1..(i - 1) :
                            SubSeq(text, j, j + Len(pattern) - 1) # pattern
         IN SubSeq(text, 1, i - 1) \o replacement
                \o SubSeq(text, i + Len(pattern), Len(text))
    ELSE text

Unchecked == <<"- [ ] ">>

Checked == <<"- [x] ">>

\* the loop of backlog_done without its test of the marker
FindUnchecked_anyLine(lines, item) ==
    IF \E i \in 1..Len(lines) : Includes(lines[i], item)
    THEN CHOOSE i \in 1..Len(lines) :
            /\ Includes(lines[i], item)
            /\ \A j \in 1..(i - 1) : ~Includes(lines[j], item)
    ELSE 0

\* the loop of backlog_done without its `break`: the last match is kept
FindUnchecked_last(lines, item) ==
    IF \E i \in 1..Len(lines) :
            StartsWith(lines[i], Unchecked) /\ Includes(lines[i], item)
    THEN CHOOSE i \in 1..Len(lines) :
            /\ StartsWith(lines[i], Unchecked) /\ Includes(lines[i], item)
            /\ \A j \in (i + 1)..Len(lines) :
                   ~(StartsWith(lines[j], Unchecked) /\ Includes(lines[j], item))
    ELSE 0

\* backlog_done: index of the first unchecked line containing item, 0 if none
FindUnchecked(lines, item) ==
    IF \E i \in 1..Len(lines) :
            StartsWith(lines[i], Unchecked) /\ Includes(lines[i], item)
    THEN CHOOSE i \in 1..Len(lines) :
            /\ StartsWith(lines[i], Unchecked) /\ Includes(lines[i], item)
            /\ \A j \in 1..(i - 1) :
                   ~(StartsWith(lines[j], Unchecked) /\ Includes(lines[j], item))
    ELSE 0

\* backlog_done: the line rewritten at clock reading stamp
MarkDone(line, stamp) ==
    Replace(line, Unchecked, Checked) \o <<" ", "@done", " ", "(">> \o stamp \o <<")">>

\* backlog_done: the arguments of the write back
BacklogWriteArgs(project, lines) ==
    buildArgs("create", TRUE,
        <<Lit("name", JSString(StripMd(BacklogPath(project)))),
          Lit("content", JSString(Join(lines, <<"\n">>))),
          Lit("overwrite", True),
          Lit("silent", True)>>)

\* backlog_done: the error thrown when no line matches
NoUncheckedItem(project, item) ==
    Error(<<"No unchecked backlog item matching", " ", "\"">> \o StringOf(item)
              \o <<"\"", " ", "in", " ">> \o BacklogPath(project))

\* line.replace(/^Projects\//, "").split("/")[0]
ProjectOfLine(line) ==
    LET rest == IF StartsWith(line, <<"Projects", "/">>)
                THEN SubSeq(line, 3, Len(line))
                ELSE line
    IN Split(rest, "/")[1]

RECURSIVE MapProjectOfLine(_)
MapProjectOfLine(lines) ==
    IF lines = <<>> THEN <<>>
    ELSE <<ProjectOfLine(Head(lines))>> \o MapProjectOfLine(Tail(lines))

\* texts.filter(Boolean)
RECURSIVE FilterNonEmpty(_)
FilterNonEmpty(texts) ==
    IF texts = <<>> THEN <<>>
    ELSE IF Head(texts) # <<>>
         THEN <<Head(texts)>> \o FilterNonEmpty(Tail(texts))
         ELSE FilterNonEmpty(Tail(texts))

\* project_list without `new Set`
ProjectNames_withRepeats(listing) ==
    Join(FilterNonEmpty(MapProjectOfLine(Split(listing, "\n"))), <<"\n">>)

\* project_list: the text returned for a listing
ProjectNames(listing) ==
    Join(Dedup(<<>>, FilterNonEmpty(MapProjectOfLine(Split(listing, "\n")))),
         <<"\n">>)

RECURSIVE MapTrim(_)
MapTrim(texts) ==
    IF texts = <<>> THEN <<>>
    ELSE <<Trim(Head(texts))>> \o MapTrim(Tail(texts))

RECURSIVE TechLines(_)
TechLines(ts) ==
    IF ts = <<>> THEN <<>>
    ELSE <<(<<" ", " ", "-", " ">> \o Head(ts))>> \o TechLines(Tail(ts))

\* project_create: the frontmatter lines
FrontMatter(project, repo, tech) ==
    << <<"---">>, <<"project:", " ">> \o StringOf(project),
       <<"status:", " ", "active">> >>
    \o (IF Truthy(repo) THEN << <<"repo:", " ">> \o StringOf(repo) >> ELSE <<>>)
    \o (IF Truthy(tech)
        THEN << <<"tech:">> >>
                 \o TechLines(FilterNonEmpty(MapTrim(Split(tech.v, ","))))
        ELSE <<>>)
    \o << <<"tags:">>, <<" ", " ", "-", " ", "project-overview">>, <<"---">> >>

\* project_create: the overview document
OverviewContent(project, description, repo, tech) ==
    Join(FrontMatter(project, repo, tech), <<"\n">>)
        \o <<"\n", "\n", "#", " ">> \o StringOf(project)
        \o <<"\n", "\n">> \o StringOf(description) \o <<"\n">>

\* project_create: the arguments of the first create
OverviewCreateArgs(input) ==
    buildArgs("create", TRUE,
        <<Lit("name", JSString(<<"Projects", "/">>
                                   \o StringOf(Get(input, "project"))
                                   \o <<"/", "overview">>)),
          Lit("content", JSString(OverviewContent(Get(input, "project"),
                                                  Get(input, "description"),
                                                  Get(input, "repo"),
                                                  Get(input, "tech")))),
          Lit("silent", True)>>)

\* project_create: the arguments of the second create
BacklogCreateArgs(input) ==
    buildArgs("create", TRUE,
        <<Lit("name", JSString(<<"Projects", "/">>
                                   \o StringOf(Get(input, "project"))
                                   \o <<"/", "backlog">>)),
          Lit("content", JSString(<<"#", " ", "Backlog", " ", "--", " ">>
                                      \o StringOf(Get(input, "project"))
                                      \o <<"\n">>)),
          Lit("silent", True)>>)

\* ------------------------------------------------------------------------
\* Inputs of the model
\* ------------------------------------------------------------------------

\* a tool name outside the catalog
UnknownName == "nonexistent_tool"

ToolNames == CatalogNames \cup {UnknownName}

\* a key no schema declares
ExtraKey == "extraField"

\* the inputSchema of every tool name (an empty one for a name outside the
\* catalog)
SchemaOf ==
    [name \in ToolNames |->
        IF FindTool(name) = 0 THEN objectSchema(<<>>, <<>>)
        ELSE tools[FindTool(name)].inputSchema]

PropsOf(name) == SchemaOf[name].properties

RequiredOf(name) == SchemaOf[name].required

DeclaredKeys(name) == {PropsOf(name)[i].k : i \in 1..Len(PropsOf(name))}

\* the texts allowed by the enums of a tool
EnumTexts(name) ==
    UNION {{PropsOf(name)[i].enum[j] : j \in 1..Len(PropsOf(name)[i].enum)} :
             i \in 1..Len(PropsOf(name))}

\* the values a caller of validateInput puts in a bag for tool `name`
BagValues(name) ==
    {Undefined, Null, JSString(<<" ">>), JSString(<<"x">>), JSNumber(5),
     JSBoolean(TRUE)}
        \cup {JSString(e) : e \in EnumTexts(name)}

\* the keys a caller puts in a bag for tool `name`
BagKeys(name) == DeclaredKeys(name) \cup {ExtraKey}

\* the keys the handlers set themselves in the objects they pass to buildArgs
FlagKeys == {"silent", "all", "counts", "toggle"}

\* the keys a caller of handleTool puts in its input for tool `name`
HandlerKeys(name) == BagKeys(name) \cup FlagKeys

\* the object with keys[j] |-> vals[j], inserted in the order j = 1, 2, ...
ObjectOf(keys, vals) == [j \in 1..Len(keys) |-> [k |-> keys[j], v |-> vals[j]]]

\* no key twice
Distinct(keys) == \A i, j \in 1..Len(keys) : i # j => keys[i] # keys[j]

\* the values a caller of handleTool gives to key `key` of tool `name`: for
\* a declared key, values of the declared type and of another type; for a
\* project also a name that is a relative path
InputValues(name, key) ==
    IF PropIndex(PropsOf(name), key) = 0
    THEN {JSString(<<"x">>), JSBoolean(FALSE)}
    ELSE LET prop == PropsOf(name)[PropIndex(PropsOf(name), key)]
         IN CASE prop.hasEnum ->
                    {Undefined, Null, JSString(<<"x">>), JSBoolean(TRUE)}
                        \cup {JSString(prop.enum[j]) : j \in 1..Len(prop.enum)}
              [] prop.type = "string" /\ ~prop.hasEnum ->
                    {Undefined, JSString(<<" ">>), JSString(<<"x">>), JSNumber(5)}
                        \cup IF key = "project"
                             THEN {JSString(<<"..", "/", "b">>)}
                             ELSE {}
              [] prop.type = "number" ->
                    {Undefined, JSNumber(5), JSString(<<"x">>)}
              [] prop.type = "boolean" ->
                    {Undefined, JSBoolean(TRUE), JSBoolean(FALSE), Null}

\* every value a caller of handleTool gives to some key of tool `name`
InputPool(name) == UNION {InputValues(name, key) : key \in BagKeys(name)}

\* the required fields of a tool, each with an acceptable value
RECURSIVE RequiredFilled(_)
RequiredFilled(required) ==
    IF required = <<>> THEN <<>>
    ELSE <<[k |-> Head(required), v |-> JSString(<<"x">>)]>>
             \o RequiredFilled(Tail(required))

\* how the keys a caller of handleTool chooses are combined with the
\* filled-in required fields: not at all, inserted after them, or before them
InputModes == {"alone", "after", "before"}

HandlerInput(name, mode, obj) ==
    CASE mode = "alone" -> obj
      [] mode = "after" -> RequiredFilled(RequiredOf(name)) \o obj
      [] mode = "before" -> obj \o RequiredFilled(RequiredOf(name))

\* what the external program writes and how it ends
Stdouts == {<<>>, <<"\n">>, <<" ", "ok", "\n">>}

Stderrs == {<<>>, <<"\n">>, <<"Error:", " ", "failed", "\n">>}

\* the error execFile hands to its callback: none; the process exited with
\* status 2; the process was killed at the timeout and died of the signal, or
\* handled it and exited with a status; the process died of a signal nobody
\* here sent; the program was not found; execFile terminated the child
\* because its output passed maxBuffer
ExitedOk == NoChildError

ExitedWith(code) == ChildError(TRUE, FALSE, TRUE, JSNumber(code))

KilledAtTimeout == ChildError(TRUE, TRUE, TRUE, Null)

KilledThenExited(code) == ChildError(TRUE, TRUE, TRUE, JSNumber(code))

Signalled == ChildError(TRUE, FALSE, TRUE, Null)

NotSpawned == ChildError(FALSE, FALSE, TRUE, JSString(<<"ENOENT">>))

BufferExceeded ==
    ChildError(FALSE, FALSE, TRUE,
               JSString(<<"ERR_CHILD_PROCESS_STDIO_MAXBUFFER">>))

ChildErrors ==
    {ExitedOk, ExitedWith(2), KilledAtTimeout, KilledThenExited(3), Signalled,
     NotSpawned, BufferExceeded}

\* the ways a child process ends: for a direct call of runObsidian every
\* combination, for a call made by handleTool a selection of them
ChildEnds(t, stdouts) ==
    IF t.fn = "runObsidian"
    THEN ChildErrors \X stdouts \X Stderrs
    ELSE {<<ExitedOk, out, <<>> >> : out \in stdouts}
            \cup {<<ExitedWith(2), <<>>, <<"Error:", " ", "failed", "\n">> >>,
                  <<KilledAtTimeout, <<>>, <<>> >>}

\* the documents `read` may return for a backlog
BacklogTexts ==
    {<<>>,
     <<"- [ ] ", "x", "\n", "- [ ] ", "x", " ", "y", "\n">>,
     <<"#", " ", "Backlog", "\n", "- [x] ", "x", "\n", "- [ ] ", "y", " ", "x">>,
     <<"- [x] ", "x", "\n", "- [ ] ", "y", "\n">>}

\* the listings `files` may return
Listings ==
    {<<>>,
     <<"Projects", "/", "a", "/", "backlog", ".md", "\n",
       "Projects", "/", "b", "/", "overview", ".md", "\n",
       "Projects", "/", "a", "/", "overview", ".md">>,
     <<"Projects", "/", "readme", ".md", "\n", "\n",
       "Projects", "/", "/", "x", ".md", "\n",
       "Other", "/", "x", ".md", "\n",
       "Projects", "/", "readme", ".md">>}

\* the clock readings of `new Date()`, formatted yy-mm-dd hh:min
Stamps == {<<"26-02-11", " ", "09:05">>}

\* the values of OBSIDIAN_VAULT at startup
EnvVaults == {Undefined, JSString(<<>>), JSString(<<"Env", " ", "Vault">>)}

\* the options a direct caller of runObsidian passes
OptionVaults == {Undefined, JSString(<<>>), JSString(<<"Option", " ", "Vault">>)}

OptionTimeouts == {Undefined, JSNumber(5000)}

\* the argument vectors a direct caller of runObsidian passes
DirectArgs == {<<(<<"vault">>)>>, <<(<<"read">>), <<"file", "=", "MyNote">> >>}

\* ------------------------------------------------------------------------
\* server.ts: formatToolError and the CallTool request handler
\* ------------------------------------------------------------------------

\* the message of a ValidationError: the text given to super() by the
\* constructor, for each of the throw sites of validateInput
ValidationMessage(error) ==
    <<"Validation error for", " ", "\"", error.toolName, "\"", ":", " ">> \o
    CASE error.kind = "UnknownTool" ->
            <<"Unknown tool", " ", "\"", error.toolName, "\"">>
      [] error.kind = "MissingRequired" ->
            <<"Missing required parameter", " ", "\"", error.param, "\"">>
      [] error.kind = "EmptyRequired" ->
            <<"Required parameter", " ", "\"", error.param, "\"", " ",
              "must not be empty">>
      [] error.kind = "TypeMismatch" ->
            <<"Parameter", " ", "\"", error.param, "\"", " ", "must be a", " ",
              error.expected, ",", " ", "got", " ", error.actual>>
      [] error.kind = "InvalidEnum" ->
            <<"Parameter", " ", "\"", error.param, "\"", " ", "must be one of",
              " ", "[">> \o Join(error.allowed, <<",", " ">>)
               \o <<"]", ",", " ", "got", " ", "\"">> \o error.got \o <<"\"">>
      [] OTHER -> <<>>

\* formatToolError without the branch for ObsidianCliError
formatToolError_messageOnly(error) ==
    IF error.name = "ValidationError" THEN ValidationMessage(error)
    ELSE error.message

\* formatToolError(error) for the errors handleTool throws
formatToolError(error) ==
    IF error.name = "ValidationError" THEN ValidationMessage(error)
    ELSE IF error.name = "ObsidianCliError"
    THEN <<"Obsidian CLI error (exit", " ">> \o NatToString(error.exitCode)
            \o <<"):", " ">> \o error.message
    ELSE error.message

\* the value the CallTool request handler returns, or none yet
NoResponse ==
    [returned |-> FALSE, hasIsError |-> FALSE, isError |-> FALSE, text |-> <<>>]

\* the CallTool request handler from the settling of `await handleTool(...)`
\* on: the try block returns the text, the catch block the formatted error
CallToolResult(out) ==
    IF out.status = "resolved"
    THEN [returned |-> TRUE, hasIsError |-> FALSE, isError |-> FALSE,
          text |-> OrElse(out.value, <<"(no output)">>)]
    ELSE [returned |-> TRUE, hasIsError |-> TRUE, isError |-> TRUE,
          text |-> formatToolError(out.error)]

\* ------------------------------------------------------------------------
\* State
\* ------------------------------------------------------------------------

VARIABLES
    env,          \* process.env.OBSIDIAN_VAULT
    schemaCache,  \* validation.ts schemaCache
    task,         \* the invocations of the exported functions, by task id
    document      \* the text the external program keeps as the backlog document

vars == <<env, schemaCache, task, document>>

NoChild ==
    [bin |-> "", args |-> <<>>, options |-> NoOptions, envVault |-> Undefined,
     fullArgs |-> <<>>, timeoutMs |-> 0]

\* a task before it calls anything
IdleTask ==
    [pc |-> "idle", fn |-> "none", name |-> "", input |-> <<>>,
     step |-> "none", child |-> NoChild, spawned |-> <<>>, ended |-> <<>>,
     out |-> Pending, response |-> NoResponse, after |-> {}]

Init ==
    /\ env \in EnvVaults
    /\ schemaCache = <<>>
    /\ document = <<>>
    /\ task = [i \in {1} |-> IdleTask]

\* ------------------------------------------------------------------------
\* handleTool, from its call to its first await (or to its failure)
\* ------------------------------------------------------------------------

\* what handleTool does before it first yields: the error thrown (NoError if
\* none), whether runObsidian was called and with which arguments, and the
\* await it is suspended at
Thrown(cache, error) ==
    [error |-> error, cache |-> cache, calls |-> FALSE, args |-> <<>>,
     step |-> "none"]

Awaiting(cache, args, step) ==
    [error |-> NoError, cache |-> cache, calls |-> TRUE, args |-> args,
     step |-> step]

\* handleTool from the switch on, `valid` being the outcome of validateInput
handleToolSwitch(valid, name, input) ==
       IF valid.error # NoError THEN Thrown(valid.cache, valid.error)
       ELSE IF name \in SingleCallCases
       THEN Awaiting(valid.cache, SingleCallArgs(name, input), "return")
       ELSE IF name = "backlog_done"
       THEN Awaiting(valid.cache,
                     buildArgs("read", TRUE,
                         <<Lit("path", JSString(BacklogPath(Get(input, "project"))))>>),
                     "backlog_done:read")
       ELSE IF name = "project_list"
       THEN Awaiting(valid.cache,
                     buildArgs("files", TRUE,
                         <<Lit("folder", JSString(<<"Projects">>)),
                           Lit("ext", JSString(<<"md">>))>>),
                     "project_list:files")
       ELSE IF name = "project_create"
       THEN Awaiting(valid.cache, OverviewCreateArgs(input),
                     "project_create:overview")
       ELSE Thrown(valid.cache, Error(<<"Unknown tool:", " ", name>>))

\* handleTool entering the switch whatever validateInput threw
handleTool_validatesLate(cache, name, input) ==
    handleToolSwitch([error |-> NoError,
                      cache |-> validateInput(cache, name, input).cache],
                     name, input)

\* handleTool(name, input) up to its first await, or to its throw
handleTool(cache, name, input) ==
    handleToolSwitch(validateInput(cache, name, input), name, input)

\* the task after runObsidian(args, options) was called at await `step`
CallRunObsidian(t, args, options, step) ==
    LET child == SpawnObsidian(args, options, env)
    IN [t EXCEPT !.pc = "awaiting", !.step = step, !.child = child,
                 !.spawned = Append(@, child)]

\* the task after the callback of execFile ran with end = <<error, stdout,
\* stderr>> for its child process
ChildEnded(t, end) == [t EXCEPT !.ended = Append(@, end)]

\* the task after the called function settled; the promise of handleTool
\* settles into the CallTool request handler that awaits it
Settle(t, out) ==
    [t EXCEPT !.pc = "done", !.step = "none", !.child = NoChild, !.out = out,
              !.response = IF t.fn = "handleTool" THEN CallToolResult(out)
                           ELSE NoResponse]

\* a caller invokes handleTool(name, input)
HandleTool(i) ==
    /\ task[i].pc = "idle"
    /\ \E name \in ToolNames :
       \E mode \in InputModes, n \in 0..MaxInputLen :
       \E keys \in [1..n -> HandlerKeys(name)] :
       \E vals \in [1..n -> InputPool(name)] :
          /\ Distinct(keys)
          /\ \A j \in 1..n : vals[j] \in InputValues(name, keys[j])
          /\ mode # "alone" =>
                \E required \in {RequiredOf(name)} :
                   /\ required # <<>>
                   /\ \A j \in 1..n : \A r \in 1..Len(required) :
                         keys[j] # required[r]
          /\ \E input \in {HandlerInput(name, mode, ObjectOf(keys, vals))} :
             \E h \in {handleTool(schemaCache, name, input)} :
             \E t \in {[task[i] EXCEPT !.fn = "handleTool", !.name = name,
                                       !.input = input]} :
                /\ schemaCache' = h.cache
                /\ task' = [task EXCEPT ![i] =
                               IF h.calls
                               THEN CallRunObsidian(t, h.args, NoOptions, h.step)
                               ELSE Settle(t, Rejected(h.error))]
    /\ UNCHANGED <<env, document>>

\* a caller invokes runObsidian(args, options) directly
RunObsidian(i) ==
    /\ task[i].pc = "idle"
    /\ \E args \in DirectArgs, vault \in OptionVaults, timeoutMs \in OptionTimeouts :
          task' = [task EXCEPT ![i] =
                      CallRunObsidian([task[i] EXCEPT !.fn = "runObsidian"],
                                      args,
                                      [vault |-> vault, timeoutMs |-> timeoutMs],
                                      "return")]
    /\ UNCHANGED <<env, schemaCache, document>>

\* ------------------------------------------------------------------------
\* The child process ends: the callback of execFile runs, runObsidian
\* settles and the code after the await runs up to the next await
\* ------------------------------------------------------------------------

\* `return runObsidian(...)` with a second attempt after a failure
ReturnResult_retries(i) ==
    /\ task[i].pc = "awaiting" /\ task[i].step = "return"
    /\ \E end \in ChildEnds(task[i], Stdouts) :
       \E out \in {runObsidianSettle(task[i].child, end[1], end[2], end[3])} :
          task' = [task EXCEPT ![i] =
                      IF out.status = "rejected" /\ Len(@.spawned) = 1
                      THEN CallRunObsidian(ChildEnded(@, end), @.child.args,
                                           @.child.options, "return")
                      ELSE Settle(ChildEnded(@, end), out)]
    /\ UNCHANGED <<env, schemaCache, document>>

\* the task after the child of `return runObsidian(...)` ended with `end`
AfterReturn(t, end) ==
    Settle(ChildEnded(t, end),
           runObsidianSettle(t.child, end[1], end[2], end[3]))

\* `return runObsidian(...)`, or the direct call: the result is passed on
ReturnResult(i) ==
    /\ task[i].pc = "awaiting" /\ task[i].step = "return"
    /\ \E end \in ChildEnds(task[i], Stdouts) :
          task' = [task EXCEPT ![i] = AfterReturn(@, end)]
    /\ UNCHANGED <<env, schemaCache, document>>

\* backlog_done from the end of the child of its read to its next await,
\* the clock reading `stamp`
AfterBacklogDoneRead(t, end, stamp) ==
    LET read == runObsidianSettle(t.child, end[1], end[2], end[3])
        project == Get(t.input, "project")
        item == Get(t.input, "item")
        lines == Split(read.value, "\n")
        found == FindUnchecked(lines, StringOf(item))
    IN IF read.status = "rejected" THEN Settle(ChildEnded(t, end), read)
       ELSE IF found = 0
       THEN Settle(ChildEnded(t, end), Rejected(NoUncheckedItem(project, item)))
       ELSE CallRunObsidian(ChildEnded(t, end),
                BacklogWriteArgs(project,
                    [lines EXCEPT ![found] = MarkDone(lines[found], stamp)]),
                NoOptions, "backlog_done:write")

\* backlog_done after `await runObsidian(read)`
BacklogDoneRead(i) ==
    /\ task[i].pc = "awaiting" /\ task[i].step = "backlog_done:read"
    /\ \E end \in ChildEnds(task[i], BacklogTexts), stamp \in Stamps :
       \E t \in {task[i]} :
          task' = [task EXCEPT ![i] = AfterBacklogDoneRead(t, end, stamp)]
    /\ UNCHANGED <<env, schemaCache, document>>

\* backlog_done with a second attempt to write after a failed write
BacklogDoneWrite_compensates(i) ==
    /\ task[i].pc = "awaiting" /\ task[i].step = "backlog_done:write"
    /\ \E end \in ChildEnds(task[i], Stdouts) :
       \E write \in {runObsidianSettle(task[i].child, end[1], end[2], end[3])} :
          task' = [task EXCEPT ![i] =
                IF write.status = "rejected"
                THEN CallRunObsidian(ChildEnded(@, end), @.child.args,
                                     NoOptions, "return")
                ELSE Settle(ChildEnded(@, end),
                            Resolved(<<"Marked done:", " ">>
                                        \o StringOf(Get(@.input, "item"))))]
    /\ UNCHANGED <<env, schemaCache, document>>

\* backlog_done from the end of the child of its write to its return
AfterBacklogDoneWrite(t, end) ==
    LET write == runObsidianSettle(t.child, end[1], end[2], end[3])
    IN IF write.status = "rejected" THEN Settle(ChildEnded(t, end), write)
       ELSE Settle(ChildEnded(t, end),
                   Resolved(<<"Marked done:", " ">>
                               \o StringOf(Get(t.input, "item"))))

\* backlog_done after `await runObsidian(create)`
BacklogDoneWrite(i) ==
    /\ task[i].pc = "awaiting" /\ task[i].step = "backlog_done:write"
    /\ \E end \in ChildEnds(task[i], Stdouts) :
       \E t \in {task[i]} :
          task' = [task EXCEPT ![i] = AfterBacklogDoneWrite(t, end)]
    /\ UNCHANGED <<env, schemaCache, document>>

\* project_list after `await runObsidian(files)`
ProjectListFiles(i) ==
    /\ task[i].pc = "awaiting" /\ task[i].step = "project_list:files"
    /\ \E end \in ChildEnds(task[i], Listings) :
          LET listing == runObsidianSettle(task[i].child, end[1], end[2], end[3])
          IN task' = [task EXCEPT ![i] =
                IF listing.status = "rejected"
                THEN Settle(ChildEnded(@, end), listing)
                ELSE Settle(ChildEnded(@, end),
                            Resolved(ProjectNames(listing.value)))]
    /\ UNCHANGED <<env, schemaCache, document>>

\* project_create going on to its second create whatever the first gave
ProjectCreateOverview_continues(i) ==
    /\ task[i].pc = "awaiting" /\ task[i].step = "project_create:overview"
    /\ \E end \in ChildEnds(task[i], Stdouts) :
          task' = [task EXCEPT ![i] =
                CallRunObsidian(ChildEnded(@, end), BacklogCreateArgs(@.input),
                                NoOptions, "project_create:backlog")]
    /\ UNCHANGED <<env, schemaCache, document>>

\* project_create after the first `await runObsidian(create)`
ProjectCreateOverview(i) ==
    /\ task[i].pc = "awaiting" /\ task[i].step = "project_create:overview"
    /\ \E end \in ChildEnds(task[i], Stdouts) :
          LET created == runObsidianSettle(task[i].child, end[1], end[2], end[3])
          IN task' = [task EXCEPT ![i] =
                IF created.status = "rejected"
                THEN Settle(ChildEnded(@, end), created)
                ELSE CallRunObsidian(ChildEnded(@, end),
                                     BacklogCreateArgs(@.input), NoOptions,
                                     "project_create:backlog")]
    /\ UNCHANGED <<env, schemaCache, document>>

\* project_create with the second create's failure caught and dropped
ProjectCreateBacklog_ignoresFailure(i) ==
    /\ task[i].pc = "awaiting" /\ task[i].step = "project_create:backlog"
    /\ \E end \in ChildEnds(task[i], Stdouts) :
          task' = [task EXCEPT ![i] =
                Settle(ChildEnded(@, end),
                       Resolved(<<"Created project:", " ">>
                                   \o StringOf(Get(@.input, "project"))))]
    /\ UNCHANGED <<env, schemaCache, document>>

\* project_create after the second `await runObsidian(create)`
ProjectCreateBacklog(i) ==
    /\ task[i].pc = "awaiting" /\ task[i].step = "project_create:backlog"
    /\ \E end \in ChildEnds(task[i], Stdouts) :
          LET created == runObsidianSettle(task[i].child, end[1], end[2], end[3])
          IN task' = [task EXCEPT ![i] =
                IF created.status = "rejected"
                THEN Settle(ChildEnded(@, end), created)
                ELSE Settle(ChildEnded(@, end),
                            Resolved(<<"Created project:", " ">>
                                          \o StringOf(Get(@.input, "project"))))]
    /\ UNCHANGED <<env, schemaCache, document>>

\* ------------------------------------------------------------------------
\* Direct calls of the pure functions
\* ------------------------------------------------------------------------

\* a caller invokes validateInput(name, input)
ValidateInput(i) ==
    /\ task[i].pc = "idle"
    /\ \E name \in {task[i].name} :
       \E n \in 0..MaxBagLen :
       \E keys \in [1..n -> BagKeys(name)] :
          /\ Distinct(keys)
          /\ \E vals \in [1..n -> BagValues(name)] :
             \E input \in {ObjectOf(keys, vals)} :
             \E valid \in {validateInput(schemaCache, name, input)} :
                /\ schemaCache' = valid.cache
                /\ task' = [task EXCEPT ![i] =
                               Settle([@ EXCEPT !.fn = "validateInput",
                                                !.input = input],
                                      IF valid.error = NoError
                                      THEN Resolved(<<>>)
                                      ELSE Rejected(valid.error))]
    /\ UNCHANGED <<env, document>>

\* the commands, keys and values a direct caller of buildArgs passes
Commands == {"create", "search"}

ParamKeys == {"name", "silent", "0", "1"}

ParamValues ==
    {Undefined, JSString(<<"x">>), JSNumber(10), JSBoolean(TRUE), JSBoolean(FALSE)}

\* a caller invokes buildArgs(command) or buildArgs(command, params)
BuildArgs(i) ==
    /\ task[i].pc = "idle"
    /\ \E command \in {task[i].name}, hasParams \in BOOLEAN :
       \E n \in 0..(IF hasParams THEN MaxParamsLen ELSE 0) :
       \E keys \in [1..n -> ParamKeys] :
          /\ Distinct(keys)
          /\ \E vals \in [1..n -> ParamValues] :
             \E params \in {ObjectOf(keys, vals)} :
                task' = [task EXCEPT ![i] =
                           Settle([@ EXCEPT !.fn = "buildArgs", !.input = params],
                                  Resolved(buildArgs(command, hasParams, params)))]
    /\ UNCHANGED <<env, schemaCache, document>>

Tasks == DOMAIN task

Next ==
    \/ \E i \in Tasks : HandleTool(i)
    \/ \E i \in Tasks : RunObsidian(i)
    \/ \E i \in Tasks : ReturnResult(i)
    \/ \E i \in Tasks : BacklogDoneRead(i)
    \/ \E i \in Tasks : BacklogDoneWrite(i)
    \/ \E i \in Tasks : ProjectListFiles(i)
    \/ \E i \in Tasks : ProjectCreateOverview(i)
    \/ \E i \in Tasks : ProjectCreateBacklog(i)

Spec == Init /\ [][Next]_vars

\* validateInput alone, for a tool name drawn at the start
InitValidate ==
    /\ env = Undefined
    /\ schemaCache = <<>>
    /\ document = <<>>
    /\ \E name \in ToolNames :
          task = [i \in {1} |-> [IdleTask EXCEPT !.name = name]]

NextValidate == \E i \in Tasks : ValidateInput(i)

SpecValidate == InitValidate /\ [][NextValidate]_vars

\* validateInput called again and again in one process, the schema cache
\* living on between the calls
CachedNames == {"create_note", "search_vault", UnknownName}

InitCache ==
    /\ env = Undefined
    /\ schemaCache = <<>>
    /\ document = <<>>
    /\ \E name \in CachedNames :
          task = [i \in {1} |-> [IdleTask EXCEPT !.name = name]]

\* the caller turns to its next call of validateInput
NextCall(i) ==
    /\ task[i].pc = "done"
    /\ \E name \in CachedNames :
          task' = [task EXCEPT ![i] = [IdleTask EXCEPT !.name = name]]
    /\ UNCHANGED <<env, schemaCache, document>>

NextCache ==
    \/ \E i \in Tasks : ValidateInput(i)
    \/ \E i \in Tasks : NextCall(i)

SpecCache == InitCache /\ [][NextCache]_vars

\* buildArgs alone, for a command drawn at the start
InitBuildArgs ==
    /\ env = Undefined
    /\ schemaCache = <<>>
    /\ document = <<>>
    /\ \E command \in Commands :
          task = [i \in {1} |-> [IdleTask EXCEPT !.name = command]]

NextBuildArgs == \E i \in Tasks : BuildArgs(i)

SpecBuildArgs == InitBuildArgs /\ [][NextBuildArgs]_vars

\* ------------------------------------------------------------------------
\* Properties
\* ------------------------------------------------------------------------

\* the tasks that called function fn
Called(fn) == {i \in Tasks : task[i].fn = fn}

\* the error a settled call threw, NoError when it returned
ThrownBy(i) ==
    IF task[i].out.status = "rejected" THEN task[i].out.error ELSE NoError

\* the least element of a non-empty set of indices
Least(S) == CHOOSE j \in S : \A k \in S : j <= k

\* a value that is absent for the required-field check
IsMissing(value) == value \in {Undefined, Null}

\* a string made of white space only (the empty string included)
IsBlank(value) ==
    value.t = "string" /\ \A j \in 1..Len(value.v) : value.v[j] \in WhiteSpace

\* the declared properties of every tool name, by key
DeclaredProps ==
    [name \in ToolNames |->
        [key \in DeclaredKeys(name) |->
            PropsOf(name)[CHOOSE j \in 1..Len(PropsOf(name)) :
                              PropsOf(name)[j].k = key]]]

\* tool `name` declares key `key`
Declared(name, key) == key \in DOMAIN DeclaredProps[name]

\* the declared schema of key `key` of tool `name`
PropOf(name, key) == DeclaredProps[name][key]

\* the required fields of tool `name` (by index) that are absent from bag
MissingRequired(name, bag) ==
    {j \in 1..Len(RequiredOf(name)) : IsMissing(Get(bag, RequiredOf(name)[j]))}

\* the required fields of tool `name` (by index) that are blank in bag
BlankRequired(name, bag) ==
    {j \in 1..Len(RequiredOf(name)) : IsBlank(Get(bag, RequiredOf(name)[j]))}

\* every required field of tool `name` is present and not blank in bag
RequiredPass(name, bag) ==
    MissingRequired(name, bag) = {} /\ BlankRequired(name, bag) = {}

\* entry j of bag is a declared key whose value has another type than declared
WrongType(name, bag, j) ==
    /\ bag[j].v # Undefined
    /\ Declared(name, bag[j].k)
    /\ TypeOf(bag[j].v) # PropOf(name, bag[j].k).type

\* entry j of bag is a string outside the enum declared for its key
OutsideEnum(name, bag, j) ==
    /\ bag[j].v.t = "string"
    /\ Declared(name, bag[j].k)
    /\ PropOf(name, bag[j].k).hasEnum
    /\ \A e \in 1..Len(PropOf(name, bag[j].k).enum) :
           PropOf(name, bag[j].k).enum[e] # bag[j].v.v

\* the entries of bag (by index) with a value of the wrong type
WrongTypes(name, bag) == {j \in 1..Len(bag) : WrongType(name, bag, j)}

\* the entries of bag (by index) with a string outside the declared enum
OutsideEnums(name, bag) == {j \in 1..Len(bag) : OutsideEnum(name, bag, j)}

\* C1: when validation of (name, input) fails, handleTool fails with that
\* validation error and never calls runObsidian during that invoke.
C1_ValidationFailsBeforeAnyProcess ==
    \A i \in Called("handleTool") :
        LET t == task[i]
            error == validateInput(<<>>, t.name, t.input).error
        IN error # NoError =>
              /\ t.pc = "done"
              /\ t.out = Rejected(error)
              /\ error.name = "ValidationError"
              /\ t.spawned = <<>>
              /\ t.child = NoChild

C1_Witness ==
    \E i \in Called("handleTool") :
        /\ task[i].out.status = "rejected"
        /\ task[i].out.error.name = "ValidationError"
        /\ task[i].out.error.kind = "InvalidEnum"
        /\ task[i].spawned = <<>>

\* C2 as stated: for a known tool, a bag in which some required field is
\* missing (absent or null) makes validateInput report MissingRequired.
C2_MissingRequiredAlways ==
    \A i \in Called("validateInput") :
        (/\ task[i].name \in CatalogNames
         /\ MissingRequired(task[i].name, task[i].input) # {})
            => ThrownBy(i).kind = "MissingRequired"

\* C2 amended: for a known tool and a bag in which some required field is
\* missing, validateInput reports a required-field failure whatever types
\* and enum values the bag holds: MissingRequired for the first missing
\* field when no required field declared before it is a blank string,
\* EmptyRequired for the first such blank field otherwise.
C2_RequiredChecksPrecede ==
    \A i \in Called("validateInput") :
        LET name == task[i].name
            bag == task[i].input
            missing == MissingRequired(name, bag)
            blank == BlankRequired(name, bag)
        IN (name \in CatalogNames /\ missing # {}) =>
              IF \A b \in blank : Least(missing) < b
              THEN /\ ThrownBy(i).kind = "MissingRequired"
                   /\ ThrownBy(i).param = RequiredOf(name)[Least(missing)]
              ELSE /\ ThrownBy(i).kind = "EmptyRequired"
                   /\ ThrownBy(i).param = RequiredOf(name)[Least(blank)]

\* a required field is missing next to a key of the wrong type
C2_Witness ==
    \E i \in Called("validateInput") :
        /\ ThrownBy(i).kind = "MissingRequired"
        /\ WrongTypes(task[i].name, task[i].input) # {}

\* C3: an unknown-tool failure is produced exactly for the names absent
\* from the catalog, whatever the bag holds; for a catalog name whose bag
\* passes validation handleTool reaches a case of its own (it calls
\* runObsidian) and never throws the default "Unknown tool" error.
C3_UnknownToolIffAbsent ==
    \A i \in Called("handleTool") :
        LET name == task[i].name
            valid == validateInput(<<>>, name, task[i].input).error = NoError
        IN IF name \in CatalogNames
           THEN /\ ThrownBy(i).name = "ValidationError"
                      => ThrownBy(i).kind # "UnknownTool"
                /\ ThrownBy(i) # Error(<<"Unknown tool:", " ", name>>)
                /\ valid => Len(task[i].spawned) >= 1
           ELSE /\ task[i].pc = "done"
                /\ ThrownBy(i) = ValidationError(name, "UnknownTool", "", "", "",
                                                 <<>>, <<>>)
                /\ task[i].spawned = <<>>

\* the last simple case of the switch has called runObsidian
C3_Witness ==
    \E i \in Called("handleTool") :
        /\ task[i].name = "move_file"
        /\ Len(task[i].spawned) = 1
        /\ task[i].out.status = "resolved"

\* C4: a required parameter that is a string with an empty trimmed form makes
\* validateInput fail with EmptyRequired; the required parameters are
\* examined in declared order and the first one that is missing or empty
\* decides the failure.
C4_FirstBadRequiredDecides ==
    \A i \in Called("validateInput") :
        LET name == task[i].name
            bag == task[i].input
            bad == MissingRequired(name, bag) \cup BlankRequired(name, bag)
        IN name \in CatalogNames =>
              IF bad = {}
              THEN ThrownBy(i).kind \notin {"MissingRequired", "EmptyRequired"}
              ELSE /\ ThrownBy(i).param = RequiredOf(name)[Least(bad)]
                   /\ ThrownBy(i).kind =
                         IF Least(bad) \in BlankRequired(name, bag)
                         THEN "EmptyRequired" ELSE "MissingRequired"

\* the second required field is blank after a first one that passes
C4_Witness ==
    \E i \in Called("validateInput") :
        /\ ThrownBy(i).kind = "EmptyRequired"
        /\ Len(RequiredOf(task[i].name)) >= 2
        /\ ThrownBy(i).param = RequiredOf(task[i].name)[2]
        /\ Get(task[i].input, ThrownBy(i).param) = JSString(<<" ">>)

\* C5 as stated: when the required checks pass, a declared key whose value
\* has another type than declared makes validateInput fail with TypeMismatch.
C5_TypeMismatchAlways ==
    \A i \in Called("validateInput") :
        (/\ task[i].name \in CatalogNames
         /\ RequiredPass(task[i].name, task[i].input)
         /\ WrongTypes(task[i].name, task[i].input) # {})
            => ThrownBy(i).kind = "TypeMismatch"

\* C5 amended: when the required checks pass, validateInput fails with
\* TypeMismatch, carrying the key, the declared type and the actual type,
\* exactly when the first wrongly typed declared key of the bag comes before
\* every key holding a string outside its enum; an undefined value is never
\* a TypeMismatch.
C5_FirstWrongTypeDecides ==
    \A i \in Called("validateInput") :
        LET name == task[i].name
            bag == task[i].input
            wrong == WrongTypes(name, bag)
            outside == OutsideEnums(name, bag)
        IN (name \in CatalogNames /\ RequiredPass(name, bag)) =>
              IF wrong # {} /\ \A e \in outside : Least(wrong) < e
              THEN /\ ThrownBy(i).kind = "TypeMismatch"
                   /\ ThrownBy(i).param = bag[Least(wrong)].k
                   /\ ThrownBy(i).expected = PropOf(name, bag[Least(wrong)].k).type
                   /\ ThrownBy(i).actual = TypeOf(bag[Least(wrong)].v)
                   /\ bag[Least(wrong)].v # Undefined
              ELSE ThrownBy(i).kind # "TypeMismatch"

\* null for a declared key is reported as a mismatch with actual type object
C5_Witness ==
    \E i \in Called("validateInput") :
        /\ ThrownBy(i).kind = "TypeMismatch"
        /\ ThrownBy(i).actual = "object"
        /\ Len(task[i].input) = 2
        /\ task[i].input[1].v = Undefined

\* C6 as stated, read for the bags that pass the required checks: a string
\* outside the set declared for its key makes validateInput fail with
\* InvalidEnum.
C6_InvalidEnumAlways ==
    \A i \in Called("validateInput") :
        (/\ task[i].name \in CatalogNames
         /\ RequiredPass(task[i].name, task[i].input)
         /\ OutsideEnums(task[i].name, task[i].input) # {})
            => ThrownBy(i).kind = "InvalidEnum"

\* C6 amended: validateInput fails with InvalidEnum, carrying the key, the
\* allowed set and the offending value, exactly when the required checks
\* pass and the first key of the bag holding a string outside its declared
\* set comes before every wrongly typed key; a string inside the set never
\* fails the enum check.
C6_FirstOutsideEnumDecides ==
    \A i \in Called("validateInput") :
        LET name == task[i].name
            bag == task[i].input
            wrong == WrongTypes(name, bag)
            outside == OutsideEnums(name, bag)
        IN name \in CatalogNames =>
              IF /\ RequiredPass(name, bag)
                 /\ outside # {}
                 /\ \A w \in wrong : Least(outside) < w
              THEN /\ ThrownBy(i).kind = "InvalidEnum"
                   /\ ThrownBy(i).param = bag[Least(outside)].k
                   /\ ThrownBy(i).allowed = PropOf(name, bag[Least(outside)].k).enum
                   /\ ThrownBy(i).got = bag[Least(outside)].v.v
              ELSE ThrownBy(i).kind # "InvalidEnum"

\* the required field passes and the next key holds a string outside its set
C6_Witness ==
    \E i \in Called("validateInput") :
        /\ task[i].name = "search_vault"
        /\ task[i].input = <<[k |-> "query", v |-> JSString(<<"x">>)],
                             [k |-> "format", v |-> JSString(<<"x">>)]>>
        /\ ThrownBy(i).kind = "InvalidEnum"
        /\ ThrownBy(i).got = <<"x">>

\* the bag without key `key`
RECURSIVE Without(_, _)
Without(bag, key) ==
    IF bag = <<>> THEN <<>>
    ELSE IF Head(bag).k = key THEN Without(Tail(bag), key)
         ELSE <<Head(bag)>> \o Without(Tail(bag), key)

\* C7: for a known tool, a key the schema does not declare, with any value,
\* leaves the outcome of validateInput as it is for the bag without the key.
C7_ExtraKeysIgnored ==
    \A i \in Called("validateInput") :
        (task[i].name \in CatalogNames /\ HasKey(task[i].input, ExtraKey)) =>
            ThrownBy(i) = validateInput(<<>>, task[i].name,
                                        Without(task[i].input, ExtraKey)).error

\* a passing bag with an undeclared key of a type no schema treats alike
C7_Witness ==
    \E i \in Called("validateInput") :
        /\ task[i].name = "read_property"
        /\ Len(task[i].input) = 2
        /\ Get(task[i].input, ExtraKey) = Null
        /\ task[i].out.status = "resolved"

\* the place of key `key` in the insertion order of bag
KeyPos(bag, key) == CHOOSE j \in 1..Len(bag) : bag[j].k = key

\* key k1 is enumerated before key k2 by Object.entries(bag)
EnumeratedBefore(bag, k1, k2) ==
    IF IsArrayIndex(k1) /\ IsArrayIndex(k2) THEN ArrayIndex(k1) < ArrayIndex(k2)
    ELSE IF IsArrayIndex(k1) # IsArrayIndex(k2) THEN IsArrayIndex(k1)
    ELSE KeyPos(bag, k1) < KeyPos(bag, k2)

RECURSIVE DigitsValue(_)
DigitsValue(d) ==
    IF d = <<>> THEN 0
    ELSE 10 * DigitsValue(SubSeq(d, 1, Len(d) - 1))
            + ArrayIndex(d[Len(d)])

\* text is the decimal notation of the natural number n
IsDecimalOf(text, n) ==
    /\ text # <<>>
    /\ \A j \in 1..Len(text) : IsArrayIndex(text[j])
    /\ Len(text) > 1 => text[1] # "0"
    /\ DigitsValue(text) = n

\* C9: in the result of buildArgs a key with value true gives exactly the
\* bare token key, a key with value false or undefined gives no token, a
\* string or number value gives exactly the token key=value, and no boolean
\* is written in key=value form.
C9_BooleanFlagLaw ==
    \A i \in Called("buildArgs") :
        LET r == task[i].out.value
            bag == task[i].input
        IN \A j \in 1..Len(bag) :
              LET key == bag[j].k
                  value == bag[j].v
                  tokens == {p \in 2..Len(r) : r[p][1] = key}
              IN CASE value = JSBoolean(TRUE) ->
                        /\ Cardinality(tokens) = 1
                        /\ \A p \in tokens : r[p] = <<key>>
                   [] value = JSBoolean(FALSE) \/ value = Undefined ->
                        tokens = {}
                   [] value.t = "string" ->
                        /\ Cardinality(tokens) = 1
                        /\ \A p \in tokens : r[p] = <<key, "=">> \o value.v
                   [] value.t = "number" ->
                        /\ Cardinality(tokens) = 1
                        /\ \A p \in tokens :
                              /\ SubSeq(r[p], 1, 2) = <<key, "=">>
                              /\ IsDecimalOf(SubSeq(r[p], 3, Len(r[p])), value.v)

\* true, false and a number side by side
C9_Witness ==
    \E i \in Called("buildArgs") :
        /\ task[i].input = <<[k |-> "silent", v |-> JSBoolean(TRUE)],
                             [k |-> "name", v |-> JSBoolean(FALSE)],
                             [k |-> "1", v |-> JSNumber(10)]>>
        /\ Len(task[i].out.value) = 3

RunObsidianDone == {i \in Called("runObsidian") : task[i].pc = "done"}

\* the callback of execFile reported a process that exited on its own with
\* a non-zero status
NonZeroExited(end) ==
    /\ end[1].present
    /\ ~(end[1].hasKilled /\ end[1].killed)
    /\ end[1].hasCode /\ TypeOf(end[1].code) = "number"
    /\ end[1].code.v # 0

\* the error is an ObsidianCliError with this exit status and stderr
CarriesExit(i, end) ==
    /\ task[i].out.status = "rejected"
    /\ task[i].out.error.name = "ObsidianCliError"
    /\ task[i].out.error.exitCode = end[1].code.v
    /\ task[i].out.error.stderr = end[3]

\* C11 as stated: after a non-zero exit runObsidian fails with an error
\* whose message is the trimmed stderr if non-empty, else the trimmed stdout
\* if non-empty, else "Command failed", carrying the exit status and the raw
\* stderr; and whenever stderr is non-empty the message is the trimmed
\* stderr.
C11_NonEmptyStderrIsMessage ==
    \A i \in RunObsidianDone :
       \E end \in {task[i].ended[1]} :
          NonZeroExited(end) =>
             /\ CarriesExit(i, end)
             /\ task[i].out.error.message =
                   IF Trim(end[3]) # <<>> THEN Trim(end[3])
                   ELSE IF Trim(end[2]) # <<>> THEN Trim(end[2])
                   ELSE <<"Command failed">>
             /\ end[3] # <<>> => task[i].out.error.message = Trim(end[3])

\* C11: after a non-zero exit runObsidian fails with an ObsidianCliError
\* that carries the numeric exit status and the raw stderr, and whose message
\* is the trimmed stderr if that is non-empty, else the trimmed stdout if
\* that is non-empty, else "Command failed".  Whenever stderr holds more
\* than white space the message is the trimmed stderr whatever stdout holds.
C11_MessagePrecedence ==
    \A i \in RunObsidianDone :
       \E end \in {task[i].ended[1]} :
          NonZeroExited(end) =>
             /\ CarriesExit(i, end)
             /\ task[i].out.error.message =
                   IF Trim(end[3]) # <<>> THEN Trim(end[3])
                   ELSE IF Trim(end[2]) # <<>> THEN Trim(end[2])
                   ELSE <<"Command failed">>
             /\ Trim(end[3]) # <<>> => task[i].out.error.message = Trim(end[3])

\* a command exited with status 2, wrote a bare newline to stderr and text
\* to stdout: the message is the trimmed stdout
C11_Witness ==
    \E i \in RunObsidianDone :
       /\ task[i].ended[1] = <<ExitedWith(2), <<" ", "ok", "\n">>, <<"\n">> >>
       /\ task[i].out.status = "rejected"
       /\ task[i].out.error.message = <<"ok">>
       /\ task[i].out.error.exitCode = 2
       /\ task[i].out.error.stderr = <<"\n">>

\* execFile terminated the child because it ran longer than its timeout
TimeoutExpired(end) == end[1].present /\ end[1].hasKilled /\ end[1].killed

\* the timeout in force for a call with these options
ConfiguredTimeout(options) ==
    IF options.timeoutMs = Undefined THEN 15000 ELSE options.timeoutMs.v

\* the Timeout failure of a call: it names the timeout and the full command
IsTimeoutFailure(out, child) ==
    /\ out.status = "rejected"
    /\ out.error.name = "ObsidianCliError"
    /\ out.error.exitCode = 1
    /\ out.error.message =
          <<"Command timed out after", " ">>
             \o NatToString(ConfiguredTimeout(child.options))
             \o <<"ms:", " ", "obsidian", " ">> \o Join(child.fullArgs, <<" ">>)

\* C12: a process still running when the configured timeout (the caller's
\* value, else 15000 ms) expires is terminated and runObsidian fails with the
\* Timeout failure naming that timeout, never with a success and never with
\* the NonZeroExit message or status, whatever stdout and stderr hold and
\* whatever status the terminated process reports.
C12_TimeoutAlwaysTimeout ==
    \A i \in RunObsidianDone :
       \E end \in {task[i].ended[1]} :
          TimeoutExpired(end) =>
             /\ task[i].spawned[1].timeoutMs =
                   ConfiguredTimeout(task[i].spawned[1].options)
             /\ IsTimeoutFailure(task[i].out, task[i].spawned[1])
             /\ task[i].out.error.message \notin
                   {Trim(end[3]), Trim(end[2]), <<"Command failed">>}

\* a call without a timeout option is killed at 15000 ms after its process
\* wrote to stdout and stderr and reported status 3
C12_Witness ==
    \E i \in RunObsidianDone :
       /\ task[i].ended[1] =
             <<KilledThenExited(3), <<" ", "ok", "\n">>,
               <<"Error:", " ", "failed", "\n">> >>
       /\ task[i].spawned[1].options.timeoutMs = Undefined
       /\ task[i].spawned[1].timeoutMs = 15000
       /\ task[i].out.status = "rejected"
       /\ task[i].out.error.message[1] = "Command timed out after"

\* the three outcomes of a settled call of runObsidian whose child ended
\* with end = <<error, stdout, stderr>>
IsSuccess(out, end) ==
    /\ out.status = "resolved"
    /\ ~end[1].present
    /\ out.value = Trim(end[2])

IsNonZeroExit(out, end) ==
    /\ out.status = "rejected"
    /\ out.error.name = "ObsidianCliError"
    /\ out.error.exitCode # 0
    /\ out.error.stderr = end[3]
    /\ out.error.message =
          IF Trim(end[3]) # <<>> THEN Trim(end[3])
          ELSE IF Trim(end[2]) # <<>> THEN Trim(end[2])
          ELSE <<"Command failed">>

OutcomesOf(out, end, child) ==
    {k \in {"success", "Timeout", "NonZeroExit"} :
        \/ k = "success" /\ IsSuccess(out, end)
        \/ k = "Timeout" /\ IsTimeoutFailure(out, child)
        \/ k = "NonZeroExit" /\ IsNonZeroExit(out, end)}

\* C13: every settled call of runObsidian ended in exactly one of success
\* (the process reported exit status 0 and the result is stdout trimmed at
\* both ends), Timeout, or NonZeroExit (an error carrying a non-zero exit
\* status); and a process that reported exit status 0 gives a success.
C13_OutcomeExactlyOne ==
    \A i \in RunObsidianDone :
       \E end \in {task[i].ended[1]} :
          /\ Cardinality(OutcomesOf(task[i].out, end, task[i].spawned[1])) = 1
          /\ ~end[1].present => IsSuccess(task[i].out, end)

\* a process that died of a signal after writing to stdout: the call is a
\* NonZeroExit with status 1 and nothing else
C13_Witness ==
    \E i \in RunObsidianDone :
       /\ task[i].ended[1] = <<Signalled, <<" ", "ok", "\n">>, <<>> >>
       /\ OutcomesOf(task[i].out, task[i].ended[1], task[i].spawned[1])
             = {"NonZeroExit"}
       /\ task[i].out.error.exitCode = 1
       /\ task[i].out.error.message = <<"ok">>

\* ------------------------------------------------------------------------
\* Invocations issued by handleTool
\* ------------------------------------------------------------------------

\* the tools handled by a single `return runObsidian(...)`
SimpleTools == CatalogNames \ {"backlog_done", "project_list", "project_create"}

\* the calls of handleTool that passed validateInput
Validated ==
    {i \in Called("handleTool") :
        ~(task[i].pc = "done" /\ ThrownBy(i).name = "ValidationError")}

\* C14: a validated call of handleTool for a tool other than backlog_done,
\* project_list and project_create has issued exactly one invocation of the
\* external program, while it waits and after it settled, whether the
\* invocation succeeded or failed; and it settles with that invocation's
\* outcome: its trimmed stdout, or its Timeout or NonZeroExit failure.
C14_ExactlyOneInvocation ==
    \A i \in Validated :
       task[i].name \in SimpleTools =>
          /\ Len(task[i].spawned) = 1
          /\ task[i].pc = "awaiting" => task[i].ended = <<>>
          /\ task[i].pc = "done" =>
                /\ Len(task[i].ended) = 1
                /\ Cardinality(OutcomesOf(task[i].out, task[i].ended[1],
                                          task[i].spawned[1])) = 1

\* read_note whose only invocation exited with status 2: the failure is
\* the result and no second invocation was made
C14_Witness ==
    \E i \in Validated :
       /\ task[i].name = "read_note" /\ task[i].pc = "done"
       /\ Len(task[i].spawned) = 1
       /\ task[i].ended[1][1] = ExitedWith(2)
       /\ task[i].out.status = "rejected"
       /\ task[i].out.error.exitCode = 2

\* the flags each tool is said to force
ForcedFlags ==
    [name \in {"create_note", "append_to_note", "prepend_to_note",
               "daily_note", "daily_append", "daily_prepend", "move_file",
               "backlog_add", "get_tags", "list_properties", "toggle_task"} |->
        CASE name = "get_tags" -> {"all", "counts"}
          [] name = "list_properties" -> {"counts"}
          [] name = "toggle_task" -> {"toggle"}
          [] OTHER -> {"silent"}]

\* the tokens of an argument vector
TokensOf(args) == {args[j] : j \in 1..Len(args)}

\* C15: every invocation issued by create_note, append_to_note,
\* prepend_to_note, daily_note, daily_append, daily_prepend, move_file and
\* backlog_add holds the bare token silent, by get_tags all and counts, by
\* list_properties counts, by toggle_task toggle, and none holds a
\* key=value token for such a flag, whatever the caller's input gives for
\* that key; create_note with only name = n issues [create, name=n, silent].
C15_ForcedFlags ==
    \A i \in Called("handleTool") :
       \A j \in 1..Len(task[i].spawned) :
          /\ task[i].name \in DOMAIN ForcedFlags =>
                \A flag \in ForcedFlags[task[i].name] :
                   /\ <<flag>> \in TokensOf(task[i].spawned[j].args)
                   /\ \A tok \in TokensOf(task[i].spawned[j].args) :
                         Len(tok) >= 2 => ~(tok[1] = flag /\ tok[2] = "=")
          /\ (/\ task[i].name = "create_note"
              /\ Len(task[i].input) = 1
              /\ task[i].input[1].k = "name"
              /\ TypeOf(task[i].input[1].v) = "string") =>
                task[i].spawned[j].args =
                   << <<"create">>, <<"name", "=">> \o task[i].input[1].v.v,
                      <<"silent">> >>

\* create_note called with silent: false after its name still passes silent
C15_Witness ==
    \E i \in Called("handleTool") :
       /\ task[i].name = "create_note"
       /\ task[i].input =
             <<[k |-> "name", v |-> JSString(<<"x">>)],
               [k |-> "silent", v |-> JSBoolean(FALSE)]>>
       /\ Len(task[i].spawned) = 1
       /\ task[i].spawned[1].args =
             << <<"create">>, <<"name", "=", "x">>, <<"silent">> >>

\* the format=<v> tokens of an argument vector
FormatTokens(args) ==
    {j \in 1..Len(args) :
        Len(args[j]) >= 2 /\ args[j][1] = "format" /\ args[j][2] = "="}

\* C16: every invocation issued by search_vault and query_base holds
\* exactly one format=<v> token; v is the format of the caller's input when
\* the input has one, and json when the input has none (the key is absent,
\* undefined or null).
C16_FormatDefault ==
    \A i \in Called("handleTool") :
       \A j \in 1..Len(task[i].spawned) :
          task[i].name \in {"search_vault", "query_base"} =>
             \E args \in {task[i].spawned[j].args} :
                /\ Cardinality(FormatTokens(args)) = 1
                /\ \A f \in FormatTokens(args) :
                      args[f] =
                         <<"format", "=">> \o
                            (IF \E e \in 1..Len(task[i].input) :
                                   /\ task[i].input[e].k = "format"
                                   /\ task[i].input[e].v \notin {Undefined, Null}
                             THEN Get(task[i].input, "format").v
                             ELSE <<"json">>)

\* search_vault with a query only passes format=json; query_base with
\* format csv passes format=csv
C16_Witness ==
    \E i \in Called("handleTool") :
       /\ Len(task[i].spawned) = 1
       /\ \/ /\ task[i].name = "search_vault"
             /\ task[i].input = <<[k |-> "query", v |-> JSString(<<"x">>)]>>
             /\ task[i].spawned[1].args =
                   << <<"search">>, <<"query", "=", "x">>,
                      <<"format", "=", "json">> >>
          \/ /\ task[i].name = "query_base"
             /\ Get(task[i].input, "format") = JSString(<<"csv">>)
             /\ <<"format", "=", "csv">> \in TokensOf(task[i].spawned[1].args)

\* ------------------------------------------------------------------------
\* backlog_done
\* ------------------------------------------------------------------------

\* the calls of handleTool for tool `name` that passed validateInput
HandlerCalls(name) == {i \in Validated : task[i].name = name}

\* the text of the key=<text> token of an argument vector
ValueOf(args, key) ==
    LET j == CHOOSE j \in 1..Len(args) :
                Len(args[j]) >= 2 /\ args[j][1] = key /\ args[j][2] = "="
    IN SubSeq(args[j], 3, Len(args[j]))

\* the lines of a text
LinesOf(text) == Split(text, "\n")

\* line is an unchecked backlog line that contains item
Matches(line, item) ==
    /\ line # <<>> /\ line[1] = "- [ ] "
    /\ \E a \in 1..Len(line), b \in 0..Len(line) : SubSeq(line, a, b) = item

\* new is old with line k marked done at some clock reading
DoneAt(old, new, k) ==
    /\ Len(new) = Len(old)
    /\ \A l \in 1..Len(old) : l # k => new[l] = old[l]
    /\ \E stamp \in Stamps :
          new[k] = <<"- [x] ">> \o Tail(old[k])
                      \o <<" ", "@done", " ", "(">> \o stamp \o <<")">>

\* C17: a backlog_done that got as far as its second invocation first
\* issued read path=Projects/<project>/backlog.md and then one create with
\* overwrite and silent for Projects/<project>/backlog, whose content has
\* the lines of the text read except for one: the first line that starts
\* with "- [ ] " and contains item, rewritten with the marker "- [x] " and
\* " @done (<timestamp>)" appended.  The number of lines is the same, and a
\* successful backlog_done issued exactly these two invocations.
C17_RewritesFirstMatch ==
    \A i \in HandlerCalls("backlog_done") :
       /\ task[i].pc = "done" /\ task[i].out.status = "resolved" =>
             Len(task[i].spawned) = 2
       /\ Len(task[i].spawned) <= 2
       /\ Len(task[i].spawned) = 2 =>
             \E project \in {Get(task[i].input, "project").v} :
             \E item \in {Get(task[i].input, "item").v} :
             \E old \in {LinesOf(Trim(task[i].ended[1][2]))} :
             \E write \in {task[i].spawned[2].args} :
                /\ task[i].spawned[1].args =
                      << <<"read">>,
                         <<"path", "=", "Projects", "/">> \o project
                            \o <<"/", "backlog", ".md">> >>
                /\ Len(write) = 5
                /\ write[1] = <<"create">>
                /\ write[2] = <<"name", "=", "Projects", "/">> \o project
                                 \o <<"/", "backlog">>
                /\ write[4] = <<"overwrite">> /\ write[5] = <<"silent">>
                /\ \E k \in 1..Len(old) :
                      /\ Matches(old[k], item)
                      /\ \A l \in 1..(k - 1) : ~Matches(old[l], item)
                      /\ DoneAt(old, LinesOf(ValueOf(write, "content")), k)

\* a backlog whose first two lines both match: the first is marked, the
\* second is written back as it was
C17_Witness ==
    \E i \in HandlerCalls("backlog_done") :
       /\ Len(task[i].spawned) = 2
       /\ task[i].ended[1][2] =
             <<"- [ ] ", "x", "\n", "- [ ] ", "x", " ", "y", "\n">>
       /\ ValueOf(task[i].spawned[2].args, "content") =
             <<"- [x] ", "x", " ", "@done", " ", "(", "26-02-11", " ",
               "09:05", ")", "\n", "- [ ] ", "x", " ", "y">>
       /\ task[i].pc = "done" /\ task[i].out.status = "resolved"

\* C18: when the read of backlog_done succeeded and no line of the text
\* starts with "- [ ] " and contains item, the call has failed with a plain
\* Error (not the ObsidianCliError of a Timeout or NonZeroExit) saying that
\* no unchecked item matches, and the read is the only invocation it ever
\* issued: nothing is written.
C18_NotFoundWithoutWrite ==
    \A i \in HandlerCalls("backlog_done") :
       (/\ Len(task[i].ended) >= 1
        /\ ~task[i].ended[1][1].present
        /\ \A l \in 1..Len(LinesOf(Trim(task[i].ended[1][2]))) :
              ~Matches(LinesOf(Trim(task[i].ended[1][2]))[l],
                       Get(task[i].input, "item").v)) =>
          /\ task[i].pc = "done"
          /\ task[i].out.status = "rejected"
          /\ task[i].out.error.name = "Error"
          /\ task[i].out.error.message =
                <<"No unchecked backlog item matching", " ", "\"">>
                   \o Get(task[i].input, "item").v
                   \o <<"\"", " ", "in", " ", "Projects", "/">>
                   \o Get(task[i].input, "project").v
                   \o <<"/", "backlog", ".md">>
          /\ Len(task[i].spawned) = 1
          /\ Len(task[i].ended) = 1

\* a backlog whose only line containing item is already checked
C18_Witness ==
    \E i \in HandlerCalls("backlog_done") :
       /\ task[i].ended =
             << <<ExitedOk, <<"- [x] ", "x", "\n", "- [ ] ", "y", "\n">>,
                  <<>> >> >>
       /\ Get(task[i].input, "item") = JSString(<<"x">>)
       /\ task[i].pc = "done"
       /\ task[i].out.error.name = "Error"
       /\ Len(task[i].spawned) = 1

\* ------------------------------------------------------------------------
\* project_list
\* ------------------------------------------------------------------------

\* the first path segment of a listing line, after its prefix Projects/ if
\* it has one
FirstSegment(line) ==
    LET rest == IF Len(line) >= 2 /\ line[1] = "Projects" /\ line[2] = "/"
                THEN SubSeq(line, 3, Len(line)) ELSE line
        stops == {j \in 1..Len(rest) : rest[j] = "/"}
    IN IF stops = {} THEN rest
       ELSE SubSeq(rest, 1, (CHOOSE j \in stops : \A h \in stops : j <= h) - 1)

\* the names in a result of project_list
NamesIn(result) == IF result = <<>> THEN <<>> ELSE LinesOf(result)

\* names lists, once each and in order of first appearance, the non-empty
\* first segments of lines
FirstSeenSegments(names, lines) ==
    /\ \A a, b \in 1..Len(names) : a # b => names[a] # names[b]
    /\ {names[a] : a \in 1..Len(names)} =
          {FirstSegment(lines[l]) : l \in 1..Len(lines)} \ {<<>>}
    /\ \A a, b \in 1..Len(names) :
          a < b =>
             \E l \in 1..Len(lines) :
                /\ FirstSegment(lines[l]) = names[a]
                /\ \A h \in 1..l : FirstSegment(lines[h]) # names[b]

CreatesDocument(args, project, doc) ==
    /\ Len(args) >= 2
    /\ args[1] = <<"create">>
    /\ args[2] = <<"name", "=", "Projects", "/">> \o project \o <<"/", doc>>

\* the call failed with the failure of its j-th invocation
FailedWith(i, j) ==
    \/ IsTimeoutFailure(task[i].out, task[i].spawned[j])
    \/ IsNonZeroExit(task[i].out, task[i].ended[j])

\* C20: project_create issues at most two invocations, first the create of
\* the overview document and, once that succeeded, the create of the
\* backlog document; it returns "Created project: <project>" exactly when
\* both invocations succeeded, and when one of them failed it fails with
\* the failure of that invocation.
C20_BothCreatesOrFailure ==
    \A i \in HandlerCalls("project_create") :
       \E project \in {Get(task[i].input, "project").v} :
          /\ Len(task[i].spawned) \in {1, 2}
          /\ CreatesDocument(task[i].spawned[1].args, project, "overview")
          /\ Len(task[i].spawned) = 2 =>
                /\ CreatesDocument(task[i].spawned[2].args, project, "backlog")
                /\ ~task[i].ended[1][1].present
          /\ task[i].pc = "done" =>
                \E last \in {Len(task[i].ended)} :
                   /\ last = Len(task[i].spawned)
                   /\ task[i].out.status = "resolved" <=>
                         (last = 2 /\ ~task[i].ended[2][1].present)
                   /\ task[i].out.status = "resolved" =>
                         task[i].out.value = <<"Created project:", " ">> \o project
                   /\ task[i].out.status = "rejected" =>
                         task[i].ended[last][1].present /\ FailedWith(i, last)

\* the overview was created and the create of the backlog exited with
\* status 2: the call fails with that failure
C20_Witness ==
    \E i \in HandlerCalls("project_create") :
       /\ task[i].pc = "done"
       /\ Len(task[i].spawned) = 2
       /\ ~task[i].ended[1][1].present
       /\ task[i].ended[2][1] = ExitedWith(2)
       /\ task[i].out.status = "rejected"
       /\ task[i].out.error.exitCode = 2

\* ------------------------------------------------------------------------
\* Compound operations
\* ------------------------------------------------------------------------

\* the calls of backlog_done and project_create that passed validateInput
CompoundCalls == HandlerCalls("backlog_done") \cup HandlerCalls("project_create")

\* C21: when the second invocation of backlog_done (the write) or of
\* project_create (the create of the backlog) has failed, the call has
\* failed with that invocation's failure, the first invocation had
\* succeeded, and the call never issues a third invocation: nothing undoes
\* or repeats what was done.
C21_NoRollback ==
    \A i \in CompoundCalls :
       /\ Len(task[i].spawned) <= 2
       /\ (Len(task[i].ended) = 2 /\ task[i].ended[2][1].present) =>
             /\ task[i].pc = "done"
             /\ task[i].out.status = "rejected"
             /\ FailedWith(i, 2)
             /\ ~task[i].ended[1][1].present
             /\ Len(task[i].spawned) = 2

\* the write of backlog_done timed out after a successful read
C21_Witness ==
    \E i \in HandlerCalls("backlog_done") :
       /\ task[i].pc = "done"
       /\ Len(task[i].spawned) = 2
       /\ ~task[i].ended[1][1].present
       /\ task[i].ended[2][1] = KilledAtTimeout
       /\ IsTimeoutFailure(task[i].out, task[i].spawned[2])

\* C22: in a call of backlog_done or project_create at most one external
\* process is running at any time; the second invocation was started only
\* after the first had ended, and ended in success; and a call whose first
\* invocation failed is settled with one invocation started.
C22_StrictlySequential ==
    \A i \in CompoundCalls :
       /\ Len(task[i].spawned) - Len(task[i].ended) \in {0, 1}
       /\ Len(task[i].spawned) - Len(task[i].ended) = 1 <=> task[i].pc = "awaiting"
       /\ Len(task[i].spawned) >= 2 =>
             Len(task[i].ended) >= 1 /\ ~task[i].ended[1][1].present
       /\ (Len(task[i].ended) >= 1 /\ task[i].ended[1][1].present) =>
             /\ task[i].pc = "done"
             /\ task[i].out.status = "rejected"
             /\ Len(task[i].spawned) = 1

\* project_create is waiting for its second create: the first has ended in
\* success and one process is running
C22_Witness ==
    \E i \in HandlerCalls("project_create") :
       /\ task[i].pc = "awaiting"
       /\ Len(task[i].spawned) = 2
       /\ Len(task[i].ended) = 1
       /\ ~task[i].ended[1][1].present

\* ------------------------------------------------------------------------
\* The CallTool request handler
\* ------------------------------------------------------------------------

\* the calls of handleTool that have settled
HandleToolDone == {i \in Called("handleTool") : task[i].pc = "done"}

\* C23: whenever handleTool has settled, the CallTool request handler has
\* returned a result, never thrown: with isError true and the formatted
\* error exactly when handleTool failed, and without isError exactly when
\* it succeeded.  A ValidationError is rendered as its message "Validation
\* error for "<tool>": ...", an ObsidianCliError as "Obsidian CLI error (exit
\* <code>): <message>", any other Error as its message.
C23_FailuresAreValues ==
    \A i \in HandleToolDone :
       \E r \in {task[i].response} :
          /\ r.returned
          /\ task[i].out.status = "rejected" <=> (r.hasIsError /\ r.isError)
          /\ task[i].out.status = "resolved" <=> ~r.hasIsError
          /\ task[i].out.status = "resolved" =>
                r.text = IF task[i].out.value = <<>> THEN <<"(no output)">>
                         ELSE task[i].out.value
          /\ task[i].out.status = "rejected" =>
                \E e \in {task[i].out.error} :
                   CASE e.name = "ValidationError" ->
                           /\ SubSeq(r.text, 1, 7) =
                                 <<"Validation error for", " ", "\"",
                                   task[i].name, "\"", ":", " ">>
                           /\ Len(r.text) > 7
                     [] e.name = "ObsidianCliError" ->
                           r.text = <<"Obsidian CLI error (exit", " ">>
                                       \o NatToString(e.exitCode)
                                       \o <<"):", " ">> \o e.message
                     [] OTHER -> r.text = e.message

\* read_note whose process exited with status 2 and stderr "Error: failed"
C23_Witness ==
    \E i \in HandleToolDone :
       /\ task[i].name = "read_note"
       /\ task[i].out.status = "rejected"
       /\ task[i].response =
             [returned |-> TRUE, hasIsError |-> TRUE, isError |-> TRUE,
              text |-> <<"Obsidian CLI error (exit", " ", "2", "):", " ",
                         "Error:", " ", "failed">>]

\* ------------------------------------------------------------------------
\* The schema cache
\* ------------------------------------------------------------------------

\* the calls of validateInput that have settled
ValidateDone == {i \in Called("validateInput") : task[i].pc = "done"}

\* C24: after any sequence of calls of validateInput, each call's outcome
\* is the outcome computed with an empty cache, i.e. from the schema
\* derived directly from the catalog; the cache holds entries for catalog
\* names only, and each entry is the schema parsed from the catalog entry
\* of its name.
C24_CacheLossFree ==
    /\ DOMAIN schemaCache \subseteq CatalogNames
    /\ \A name \in DOMAIN schemaCache :
          schemaCache[name] = ParseSchema(tools[FindTool(name)])
    /\ \A i \in ValidateDone :
          ThrownBy(i) = validateInput(<<>>, task[i].name, task[i].input).error

\* a call for create_note without its name fails while the cache already
\* holds the schemas of create_note and search_vault
C24_Witness ==
    /\ DOMAIN schemaCache = {"create_note", "search_vault"}
    /\ \E i \in ValidateDone :
          /\ task[i].name = "create_note"
          /\ task[i].input = <<>>
          /\ ThrownBy(i).name = "ValidationError"
          /\ ThrownBy(i).kind = "MissingRequired"

\* ------------------------------------------------------------------------
\* What the argument vector depends on
\* ------------------------------------------------------------------------

\* the input with the entries at positions a and b exchanged
Swapped(input, a, b) ==
    [j \in 1..Len(input) |->
        IF j = a THEN input[b] ELSE IF j = b THEN input[a] ELSE input[j]]

\* the keys of a token list that are the key of input entry e
TokensWithKey(args, key) ==
    {j \in 2..Len(args) : args[j][1] = key}

\* C25 (stated where the call waits for its first invocation, a state every
\* validated call that invokes the program passes through; input and
\* spawned[1] never change afterwards):
\* the argument vector of the first invocation of a validated call is
\* the one handleTool builds for the same input with any two entries
\* exchanged (the caller's insertion order does not matter) and for the
\* input without any one key the tool's schema does not declare (such a
\* key does not matter), and no token carries a key that is neither declared
\* nor set by the handler itself.
C25_VectorDependsOnMappedKeys ==
    \A i \in Validated :
       task[i].pc = "awaiting" /\ Len(task[i].spawned) = 1 =>
          \E input \in {task[i].input} :
          \E args \in {task[i].spawned[1].args} :
             /\ \A a, b \in 1..Len(input) :
                   a < b =>
                      handleTool(<<>>, task[i].name, Swapped(input, a, b)).args
                         = args
             /\ \A a \in 1..Len(input) :
                   input[a].k \notin DeclaredKeys(task[i].name) =>
                      /\ handleTool(<<>>, task[i].name,
                                    Without(input, input[a].k)).args = args
                      /\ input[a].k \notin FlagKeys =>
                            TokensWithKey(args, input[a].k) = {}

\* create_note called with an undeclared key before its name
C25_Witness ==
    \E i \in Validated :
       /\ task[i].name = "create_note"
       /\ task[i].input =
             <<[k |-> ExtraKey, v |-> JSString(<<"x">>)],
               [k |-> "name", v |-> JSString(<<"x">>)]>>
       /\ Len(task[i].spawned) = 1
       /\ task[i].spawned[1].args =
             << <<"create">>, <<"name", "=", "x">>, <<"silent">> >>

\* ------------------------------------------------------------------------
\* Two invocations on one backlog, the external program keeping the document
\* ------------------------------------------------------------------------

\* the project both invocations name, and the items they pass
BacklogProject == JSString(<<"p">>)

BacklogItems == {JSString(<<"x">>), JSString(<<"y">>), JSString(<<"x", " ">>)}

BacklogPriorities == {Undefined, JSString(<<"high">>)}

\* the texts the document may hold before the first invocation
Documents ==
    {<<>>,
     <<"- [ ] ", "x", "\n", "- [ ] ", "y", "\n">>,
     <<"#", " ", "Backlog", "\n", "\n", "- [ ] ", "y">>}

\* an append that leaves the text as it was
AppendLine_dropsContent(text, content) == text

\* the program appends content to a text as a new line
AppendLine(text, content) ==
    IF text = <<>> THEN content
    ELSE IF text[Len(text)] = "\n" THEN text \o content
    ELSE text \o <<"\n">> \o content

\* the external program run with `args` on the document `text`: read prints
\* the text, append adds the content as a new line, create with overwrite
\* replaces the text
RunProgram(text, args) ==
    CASE args[1] = <<"read">> -> [document |-> text, stdout |-> text]
      [] args[1] = <<"append">> ->
            [document |-> AppendLine(text, ValueOf(args, "content")),
             stdout |-> <<>>]
      [] args[1] = <<"create">> ->
            [document |-> ValueOf(args, "content"), stdout |-> <<>>]
      [] OTHER -> [document |-> text, stdout |-> <<>>]

\* the code after an await, by the await the task is suspended at
AfterAwait(t, end, stamp) ==
    CASE t.step = "backlog_done:read" -> AfterBacklogDoneRead(t, end, stamp)
      [] t.step = "backlog_done:write" -> AfterBacklogDoneWrite(t, end)
      [] OTHER -> AfterReturn(t, end)

InitBacklog ==
    /\ env = Undefined
    /\ schemaCache = <<>>
    /\ document \in Documents
    /\ task = [i \in {1, 2} |-> IdleTask]

\* a caller invokes backlog_add or backlog_done on the project; `after`
\* keeps the invocations that had returned by then
BacklogCall(i) ==
    /\ task[i].pc = "idle"
    /\ \E name \in {"backlog_add", "backlog_done"} :
       \E item \in BacklogItems, priority \in BacklogPriorities :
          /\ name = "backlog_done" => priority = Undefined
          /\ \E input \in {<<Lit("project", BacklogProject), Lit("item", item)>>
                             \o IF priority = Undefined THEN <<>>
                                ELSE <<Lit("priority", priority)>>} :
             \E h \in {handleTool(schemaCache, name, input)} :
             \E t \in {[task[i] EXCEPT
                          !.fn = "handleTool", !.name = name, !.input = input,
                          !.after = {j \in DOMAIN task : task[j].pc = "done"}]} :
                /\ schemaCache' = h.cache
                /\ task' = [task EXCEPT ![i] =
                               IF h.calls
                               THEN CallRunObsidian(t, h.args, NoOptions, h.step)
                               ELSE Settle(t, Rejected(h.error))]
    /\ UNCHANGED <<env, document>>

\* the child process of a suspended invocation runs on the document and
\* exits with status 0; the code after the await runs up to the next await
ProgramRuns(i) ==
    /\ task[i].pc = "awaiting"
    /\ \E ran \in {RunProgram(document, task[i].child.fullArgs)} :
       \E stamp \in Stamps, t \in {task[i]} :
          /\ document' = ran.document
          /\ task' = [task EXCEPT ![i] =
                         AfterAwait(t, <<ExitedOk, ran.stdout, <<>> >>, stamp)]
    /\ UNCHANGED <<env, schemaCache>>

NextBacklog ==
    \/ \E i \in DOMAIN task : BacklogCall(i)
    \/ \E i \in DOMAIN task : ProgramRuns(i)

SpecBacklog == InitBacklog /\ [][NextBacklog]_vars

\* the invocation returned its text
Succeeded(i) == task[i].pc = "done" /\ task[i].out.status = "resolved"

\* the item of an invocation, and the items free of white space at the ends
ItemOf(i) == StringOf(Get(task[i].input, "item"))

PlainItems == {<<"x">>, <<"y">>}

\* text shows the effect of invocation i: for backlog_add a line that is the
\* added line, unchecked or marked done since; for backlog_done a line
\* marked done that contains the item
EffectIn(text, i) ==
    IF task[i].name = "backlog_add"
    THEN \E l \in 1..Len(LinesOf(text)) :
         \E line \in {BacklogLine(Get(task[i].input, "item"),
                                  Get(task[i].input, "priority"))} :
             \/ LinesOf(text)[l] = line
             \/ \E stamp \in Stamps : LinesOf(text)[l] = MarkDone(line, stamp)
    ELSE \E l \in 1..Len(LinesOf(text)) :
            /\ StartsWith(LinesOf(text)[l], Checked)
            /\ Includes(LinesOf(text)[l], ItemOf(i))

\* the pairs of invocations of the claim: two backlog_done, or a
\* backlog_add and a backlog_done, on different items
UpdatePairs ==
    {pair \in (DOMAIN task) \X (DOMAIN task) :
        /\ pair[1] # pair[2]
        /\ task[pair[1]].name \in {"backlog_add", "backlog_done"}
        /\ task[pair[2]].name = "backlog_done"
        /\ ItemOf(pair[1]) \in PlainItems /\ ItemOf(pair[2]) \in PlainItems
        /\ ItemOf(pair[1]) # ItemOf(pair[2])}

\* C26: once two invocations on the same backlog (two backlog_done on
\* different items, or a backlog_add and a backlog_done) have both returned
\* success, the document shows the effect of both, in every interleaving.
C26_NoLostUpdate ==
    \A pair \in UpdatePairs :
       Succeeded(pair[1]) /\ Succeeded(pair[2]) =>
          EffectIn(document, pair[1]) /\ EffectIn(document, pair[2])

\* C26, one after the other: when the second invocation was called after
\* the first had returned, the document shows the effect of both.
C26_SequentialKeepsBoth ==
    \A pair \in UpdatePairs :
       /\ Succeeded(pair[1]) /\ Succeeded(pair[2])
       /\ pair[1] \in task[pair[2]].after \/ pair[2] \in task[pair[1]].after
       => EffectIn(document, pair[1]) /\ EffectIn(document, pair[2])

\* backlog_done(y) called after backlog_done(x) had returned, both successful
C26_Witness ==
    \E pair \in UpdatePairs :
       /\ task[pair[1]].name = "backlog_done"
       /\ Succeeded(pair[1]) /\ Succeeded(pair[2])
       /\ pair[1] \in task[pair[2]].after
       /\ EffectIn(document, pair[1]) /\ EffectIn(document, pair[2])

\* ------------------------------------------------------------------------
\* Which ends of the child process are reported as a timeout
\* ------------------------------------------------------------------------

\* the ends execFile reports for a child that was running when its timeout
\* expired, and for a child that ended for another reason before that
RunningAtExpiry == {KilledAtTimeout, KilledThenExited(3)}

EndedBeforeExpiry ==
    {ExitedOk, ExitedWith(2), Signalled, NotSpawned, BufferExceeded}

\* C27: runObsidian fails with the Timeout failure only when execFile
\* terminated the child at the expiry of the timeout; a child terminated
\* for passing the output cap, a program that could not be started and a
\* child that exited with a non-zero status before the expiry give another
\* outcome (the NonZeroExit failure).
C27_TimeoutOnlyAtExpiry ==
    \A i \in RunObsidianDone :
       \E end \in {task[i].ended[1]} :
          /\ IsTimeoutFailure(task[i].out, task[i].spawned[1]) =>
                end[1] \in RunningAtExpiry
          /\ end[1] \in EndedBeforeExpiry =>
                /\ ~IsTimeoutFailure(task[i].out, task[i].spawned[1])
                /\ task[i].out.status = "rejected" =>
                      task[i].out.error.message[1] # "Command timed out after"
          /\ end[1] \in {ExitedWith(2), NotSpawned, BufferExceeded} =>
                IsNonZeroExit(task[i].out, end)

\* a child terminated for passing the output cap: the NonZeroExit failure
\* with status 1
C27_Witness ==
    \E i \in RunObsidianDone :
       /\ task[i].ended[1][1] = BufferExceeded
       /\ task[i].ended[1][3] = <<>>
       /\ task[i].out.status = "rejected"
       /\ task[i].out.error.exitCode = 1
       /\ task[i].out.error.message = <<"ok">>

\* ------------------------------------------------------------------------
\* What backlog_done writes back
\* ------------------------------------------------------------------------

\* the backlog_done calls that returned "Marked done: ..."
BacklogDoneReturned ==
    {i \in HandlerCalls("backlog_done") :
        task[i].pc = "done" /\ task[i].out.status = "resolved"}

\* the text the read of call i printed (the stored document) and the text
\* its create wrote back
StoredBy(i) == task[i].ended[1][2]

WrittenBy(i) == ValueOf(task[i].spawned[2].args, "content")

\* C28: after a successful backlog_done the content written back is the
\* content the document held before the call, except for the one rewritten
\* line, whatever the stored content (leading or trailing blank lines and a
\* trailing newline included).
C28_PersistsFullText ==
    \A i \in BacklogDoneReturned :
       \E k \in 1..Len(LinesOf(StoredBy(i))) :
          DoneAt(LinesOf(StoredBy(i)), LinesOf(WrittenBy(i)), k)

\* C28, as the code has it: the content written back is the stored content
\* with the white space at both ends removed, except for the one rewritten
\* line.
C28_PersistsTrimmedText ==
    \A i \in BacklogDoneReturned :
       \E k \in 1..Len(LinesOf(Trim(StoredBy(i)))) :
          DoneAt(LinesOf(Trim(StoredBy(i))), LinesOf(WrittenBy(i)), k)

\* a document of two lines that ends with a newline is written back
\* without it
C28_Witness ==
    \E i \in BacklogDoneReturned :
       /\ StoredBy(i) = <<"- [ ] ", "x", "\n", "- [ ] ", "x", " ", "y", "\n">>
       /\ WrittenBy(i) =
             <<"- [x] ", "x", " ", "@done", " ", "(", "26-02-11", " ", "09:05",
               ")", "\n", "- [ ] ", "x", " ", "y">>

\* ------------------------------------------------------------------------
\* The documents the project tools address
\* ------------------------------------------------------------------------

ProjectTools ==
    {"backlog_add", "backlog_read", "backlog_done", "project_overview",
     "project_create"}

\* the validated calls of the project tools
ProjectCalls == {i \in Validated : task[i].name \in ProjectTools}

\* the texts of the path= and name= tokens of an argument vector
PathsOf(args) ==
    {SubSeq(args[j], 3, Len(args[j])) :
        j \in {l \in 2..Len(args) :
                  /\ Len(args[l]) >= 2
                  /\ args[l][1] \in {"path", "name"}
                  /\ args[l][2] = "="}}

\* path is the document backlog or overview directly inside the folder
\* named `folder` under Projects/
InsideProject(path, folder) ==
    /\ Len(Split(path, "/")) = 3
    /\ Split(path, "/")[1] = <<"Projects">>
    /\ Split(path, "/")[2] = folder
    /\ folder \notin {<<>>, <<".">>, <<"..">>}
    /\ Split(path, "/")[3] \in
          {<<"backlog", ".md">>, <<"backlog">>, <<"overview", ".md">>,
           <<"overview">>}

\* C29: for every project value validation accepts, every path= and name=
\* token a project tool sends designates backlog or overview directly
\* inside Projects/<project>/, the project being one folder name.
C29_StaysInProjectFolder ==
    \A i \in ProjectCalls :
       \A s \in 1..Len(task[i].spawned) :
          \A path \in PathsOf(task[i].spawned[s].args) :
             InsideProject(path, StringOf(Get(task[i].input, "project")))

\* C29 for project values that are one path segment: the tokens designate
\* backlog or overview directly inside Projects/<project>/.
C29_FolderNamesStayInside ==
    \A i \in ProjectCalls :
       \E project \in {StringOf(Get(task[i].input, "project"))} :
          Len(Split(project, "/")) = 1 /\ project \notin {<<".">>, <<"..">>} =>
             \A s \in 1..Len(task[i].spawned) :
                /\ PathsOf(task[i].spawned[s].args) # {}
                /\ \A path \in PathsOf(task[i].spawned[s].args) :
                      InsideProject(path, project)

\* project_create for project x got to its second create: overview and
\* backlog inside Projects/x/
C29_Witness ==
    \E i \in ProjectCalls :
       /\ task[i].name = "project_create"
       /\ Get(task[i].input, "project") = JSString(<<"x">>)
       /\ Len(task[i].spawned) = 2
       /\ PathsOf(task[i].spawned[1].args) = {<<"Projects", "/", "x", "/", "overview">>}
       /\ PathsOf(task[i].spawned[2].args) = {<<"Projects", "/", "x", "/", "backlog">>}

\* ------------------------------------------------------------------------
\* backlog_add followed by backlog_done
\* ------------------------------------------------------------------------

\* the number of lines of a text that start with "- [ ] "
UncheckedCount(text) ==
    Cardinality({l \in 1..Len(LinesOf(text)) :
                    StartsWith(LinesOf(text)[l], Unchecked)})

\* the pairs (a, b) of a backlog_done b that was called after the other
\* invocation a had returned, and has returned itself
DoneAfter ==
    {pair \in (DOMAIN task) \X (DOMAIN task) :
        /\ pair[1] \in task[pair[2]].after
        /\ task[pair[2]].name = "backlog_done"
        /\ task[pair[2]].pc = "done"}

\* the pairs of a successful backlog_add and a following backlog_done with
\* the same item
AddThenDone ==
    {pair \in DoneAfter :
        /\ task[pair[1]].name = "backlog_add" /\ Succeeded(pair[1])
        /\ ItemOf(pair[1]) = ItemOf(pair[2])}

\* C30: after a successful backlog_add(project, item, priority?) against a
\* program that appends the content as a new line, a following
\* backlog_done(project, item) does not fail with NotFound, marks one
\* unchecked line as done and leaves one line starting with "- [ ] " less.
C30_AddDoneRoundTrip ==
    \A pair \in AddThenDone :
       /\ Succeeded(pair[2])
       /\ UncheckedCount(document) = UncheckedCount(StoredBy(pair[2])) - 1

\* C30 for items without white space at their ends, and for every
\* backlog_done that ran on its own: after a successful backlog_add the
\* following backlog_done of the same item succeeds; a backlog_done that
\* succeeds rewrites one line of the trimmed text and leaves one unchecked
\* line less, so that repeating it ends in NotFound; one that fails leaves
\* the document as it was.
C30_PlainItemRoundTrip ==
    \A pair \in DoneAfter :
       /\ pair \in AddThenDone /\ ItemOf(pair[2]) \in PlainItems =>
             Succeeded(pair[2])
       /\ Succeeded(pair[2]) =>
             /\ UncheckedCount(document) = UncheckedCount(StoredBy(pair[2])) - 1
             /\ \E k \in 1..Len(LinesOf(Trim(StoredBy(pair[2])))) :
                   DoneAt(LinesOf(Trim(StoredBy(pair[2]))), LinesOf(document), k)
       /\ ~Succeeded(pair[2]) =>
             /\ task[pair[2]].out.error =
                   NoUncheckedItem(BacklogProject, Get(task[pair[2]].input, "item"))
             /\ document = StoredBy(pair[2])

\* backlog_add(p, x, high) on a document without x, then backlog_done(p, x):
\* the added line is the one marked done
C30_Witness ==
    \E pair \in AddThenDone :
       /\ Get(task[pair[1]].input, "priority") = JSString(<<"high">>)
       /\ ItemOf(pair[2]) = <<"x">>
       /\ Succeeded(pair[2])
       /\ document =
             <<"#", " ", "Backlog", "\n", "\n", "- [ ] ", "y", "\n",
               "- [x] ", "x", " ", "@", "high", " ", "@done", " ", "(",
               "26-02-11", " ", "09:05", ")">>

====
